---- MODULE Spec2Model ----
(***************************************************************************)
(* Model of the akane upload pipeline: the progress registry, the chunked  *)
(* upload reassembler, cancel_queue, and the background transcode job with *)
(* its per-variant FFmpeg tasks under the shared semaphore.                *)
(*                                                                         *)
(* Every handler is split at its suspension points that separate two       *)
(* accesses to shared state (a lock acquisition, a file-system call); the  *)
(* code between two such points is one atomic action.                      *)
(***************************************************************************)
EXTENDS Integers, Sequences, FiniteSets, TLC

\* ------------------------------------------------------------------ bounds

\* chunk_index and total_chunks of a chunk request are drawn from 0..MaxChunks
MaxChunks == 2
\* number of HTTP requests issued over a run
MaxRequests == 3
\* number of HTTP requests in flight at the same time
MaxInflight == 2
\* number of background jobs that encode at the same time
MaxJobs == 2
\* capacity of the shared FFmpeg semaphore (AppState.ffmpeg_semaphore)
SemaphoreCapacity == 1

UploadIds == {"U1", "U2"}
FileNames == {"a.mp4", "b.mp4"}
VideoNames == {"v"}
Payloads == {<<"A">>, <<"B", "C">>}
\* source heights a probe may report: below the ladder, 480p only, 480p+720p
Heights == {400, 480, 720}

Slots == 1..MaxInflight
JobIds == 1..MaxJobs

None == "None"

\* the clock readings are 0..MaxDrift-1 and the readings from one second
\* before the validity has passed to MaxDrift seconds after it
MaxDrift == 2

\* the source heights probed go from 0 to MaxHeight
MaxHeight == 2160

SourceHeights == 0..MaxHeight

\* the files an output directory may hold, as paths below hls_dir
HlsPaths ==
    {<<"index.m3u8">>, <<"thumbnail.jpg">>,
     <<"480p", "index.m3u8">>, <<"480p", "s0.ts">>}
\* get_progress, in milliseconds: the pause between two polls, the wait for
\* the upload to start, the wait before closing
PollMillis == 500
StreamTimeout == 60000
TerminalWait == 3000
\* by how many milliseconds in all the sleeps of a stream overrun
MaxLate == 1
\* the polls a stream is followed for
MaxPolls == 123
AdminPassword == <<"p">>
TokenParams ==
    {[present |-> FALSE], [present |-> TRUE, value |-> <<"p">>],
     [present |-> TRUE, value |-> <<"q">>]}
\* the chapters a probe lists at most
MaxChapters == 2
\* the start_time and end_time values of ffprobe's JSON: missing, a text that
\* is no number, texts of numbers, numbers
JsonTimes ==
    {[kind |-> "null"], [kind |-> "string", text |-> <<"x">>],
     [kind |-> "string", text |-> <<"-", "1">>], [kind |-> "number", value |-> 0],
     [kind |-> "string", text |-> <<"1">>], [kind |-> "number", value |-> 2]}
\* the subtitle streams a probed source has at most
MaxSubtitles == 2
\* the handlers and background tasks that run side by side on the locks
MaxTasks == 3
LockTasks == 1..MaxTasks
\* the prefix the job passes: format!("{}/", output_id)
OutputPrefix == <<"o", "/">>

\* the registries listed hold up to three uploads created at 1..MaxCreated
MaxCreated == 3

QueueIds == {"U1", "U2", "U3"}

\* the emitted frames of the presence stream that are kept
MaxFrames == 2

\* "no heartbeat in last 30 seconds"
PresenceWindow == 30

\* the instants of the monotonic clock: a heartbeat, then the scans around
\* the end of its window
Instants == {0, PresenceWindow - 10, PresenceWindow, PresenceWindow + 1}

PresenceVideos == {"V", "W"}

\* the resolved client addresses of the heartbeats; they carry no User-Agent
ViewerIps == {<<"1">>, <<"8">>}

UnknownAgent == <<"unknown">>

\* "Token valid for 1 hour (3600 seconds)"
TokenValidity == 3600

ClockValues == (0..(MaxDrift - 1)) \cup ((TokenValidity - 1)..(TokenValidity + MaxDrift))

\* strings are sequences of characters; "US" is the unit separator \x1F
US == "US"

\* path segments of /player/{id}: percent-decoded, any character
VideoIds == {<<"v">>, <<"v", US, "3", "6", "0", "0">>}

\* server.secret_key of the configuration
Secrets == {<<"k">>, <<"k", "2">>}

\* header values read with to_str(): visible ASCII, no control character
ClientIps == {<<"1">>, <<"1", "2">>}

UserAgents == {<<>>, <<"2">>}

\* ------------------------------------------------------------------ state

VARIABLES
    progress,         \* AppState.progress: uploadId -> ProgressUpdate
    chunked_uploads,  \* AppState.chunked_uploads: uploadId -> ChunkedUpload
    dirs,             \* scratch file system: the chunked-{uploadId} directories
    req,              \* the HTTP handlers in flight, one per slot
    resp,             \* the response of the handler that returned last
    jobs,             \* the detached background tasks (tokio::spawn)
    permits,          \* permits available in ffmpeg_semaphore
    started,          \* number of requests issued so far
    clock,            \* SystemTime::now(), in seconds since the epoch
    issued,           \* the last generate_token call: its inputs and its token
    verified,         \* the last verify_token call: its inputs and its answer
    player,           \* the last GET /player/{id}: the request and the cookie set
    hls,              \* the last GET /hls/{id}/{file} since that page: request and answer
    instant,          \* Instant::now(), in seconds
    active_viewers,   \* AppState.active_viewers: video -> viewer id -> last heartbeat
    scan,             \* get_realtime_analytics: the position of the stream's loop
    counts,           \* the mappings the stream emitted last, oldest first
    call,             \* the last call of a read-only function: inputs and result
    sse,              \* get_progress: the position of a progress stream and its frames
    sync              \* the two RwLocks of AppState and the tasks that take them

\* the upload pipeline's part of the state
pipeline_vars == <<progress, chunked_uploads, dirs, req, resp, jobs, permits, started>>

\* the playback tokens' part of the state
token_vars == <<clock, issued, verified, player, hls>>

\* the presence tracker's part of the state
presence_vars == <<instant, active_viewers, scan, counts>>

\* the calls of the functions that leave the server's state alone
call_vars == <<call>>

\* the progress streams' part of the state
stream_vars == <<sse>>

\* the lock discipline's part of the state
lock_vars == <<sync>>

beside_pipeline == <<token_vars, presence_vars, call_vars, stream_vars, lock_vars>>

beside_tokens == <<pipeline_vars, presence_vars, call_vars, stream_vars, lock_vars>>

beside_presence == <<pipeline_vars, token_vars, call_vars, stream_vars, lock_vars>>

beside_calls == <<token_vars, presence_vars, stream_vars, lock_vars>>

beside_stream == <<pipeline_vars, token_vars, presence_vars, call_vars, lock_vars>>

beside_locks == <<pipeline_vars, token_vars, presence_vars, call_vars, stream_vars>>

vars == <<progress, chunked_uploads, dirs, req, resp, jobs, permits, started,
          clock, issued, verified, player, hls,
          instant, active_viewers, scan, counts, call, sse, sync>>

\* ------------------------------------------------------------------ playback tokens

DigitChars == <<"0", "1", "2", "3", "4", "5", "6", "7", "8", "9">>

\* format!("{}", n) of an unsigned integer
RECURSIVE Digits(_)
Digits(n) ==
    IF n < 10 THEN <<DigitChars[n + 1]>>
    ELSE Digits(n \div 10) \o <<DigitChars[(n % 10) + 1]>>

IsDigit(c) == \E d \in DOMAIN DigitChars : DigitChars[d] = c

DigitValue(c) == (CHOOSE d \in DOMAIN DigitChars : DigitChars[d] = c) - 1

\* str::parse::<u64>() succeeds: an optional '+' sign, then one digit or more
\* (the values of the model stay far below 2^64)
IsU64(str) ==
    LET body == IF str # <<>> /\ Head(str) = "+" THEN Tail(str) ELSE str IN
    /\ body # <<>>
    /\ \A i \in DOMAIN body : IsDigit(body[i])

RECURSIVE DecimalValue(_)
DecimalValue(str) ==
    IF str = <<>> THEN 0
    ELSE 10 * DecimalValue(SubSeq(str, 1, Len(str) - 1)) + DigitValue(str[Len(str)])

\* the value str::parse::<u64>() returns
ParseU64(str) ==
    DecimalValue(IF Head(str) = "+" THEN Tail(str) ELSE str)

\* mutant of Payload: the four fields are written one after the other
PayloadNoSeparator(video_id, expiration, ip, user_agent) ==
    video_id \o Digits(expiration) \o ip \o user_agent

\* format!("{}\x1F{}\x1F{}\x1F{}", video_id, expiration, ip, user_agent)
Payload(video_id, expiration, ip, user_agent) ==
    video_id \o <<US>> \o Digits(expiration) \o <<US>> \o ip \o <<US>> \o user_agent

\* hex::encode of HMAC-SHA256 keyed by secret over payload: the MAC is taken
\* to be injective on key and payload, and its hex text is one element of
\* the token that is not a ':'
Signature(secret, payload) == [key |-> secret, msg |-> payload]

\* a character of the token text
Ch(c) == [ch |-> c]

Text(str) == [i \in DOMAIN str |-> Ch(str[i])]

\* format!("{}:{}", expiration, signature)
FormatToken(expiration, signature) ==
    Text(Digits(expiration)) \o <<Ch(":")>> \o <<signature>>

\* token.split(':').collect()
RECURSIVE Split(_)
Split(token) ==
    IF \A i \in DOMAIN token : token[i] # Ch(":") THEN <<token>>
    ELSE LET at == CHOOSE i \in DOMAIN token :
                       /\ token[i] = Ch(":")
                       /\ \A k \in 1..(i - 1) : token[k] # Ch(":") IN
         <<SubSeq(token, 1, at - 1)>> \o Split(SubSeq(token, at + 1, Len(token)))

\* the characters of a part of the token that is plain text
IsText(part) == \A i \in DOMAIN part : DOMAIN part[i] = {"ch"}

Chars(part) == [i \in DOMAIN part |-> part[i].ch]

\* mutant of Expired: the validity is counted again from the clock reading
ExpiredFromNow(now, expiration) == now + TokenValidity > expiration

\* if now > expiration { return false }
Expired(now, expiration) == now > expiration

generate_token(video_id, secret, ip, user_agent, now) ==
    LET expiration == now + TokenValidity IN
    FormatToken(expiration,
                Signature(secret, Payload(video_id, expiration, ip, user_agent)))

\* mutant of verify_token: the expiration is parsed but not compared
verify_token_unexpiring(video_id, token, secret, ip, user_agent, now) ==
    LET parts == Split(token) IN
    IF Len(parts) # 2 THEN FALSE
    ELSE IF ~(IsText(parts[1]) /\ IsU64(Chars(parts[1]))) THEN FALSE
    ELSE LET expiration == ParseU64(Chars(parts[1])) IN
         parts[2] =
             <<Signature(secret, Payload(video_id, expiration, ip, user_agent))>>

verify_token(video_id, token, secret, ip, user_agent, now) ==
    LET parts == Split(token) IN
    IF Len(parts) # 2 THEN FALSE
    ELSE IF ~(IsText(parts[1]) /\ IsU64(Chars(parts[1]))) THEN FALSE
    ELSE LET expiration == ParseU64(Chars(parts[1])) IN
         IF Expired(now, expiration) THEN FALSE
         ELSE parts[2] =
                  <<Signature(secret, Payload(video_id, expiration, ip, user_agent))>>

\* a request header: absent, or present with its value
Absent == [present |-> FALSE]

Hdr(value) == [present |-> TRUE, value |-> value]

\* "0x80" stands for a byte that is not visible ASCII
IsVisible(c) == c # "0x80"

\* HeaderValue::to_str().ok() is Some: the header is there and all its bytes
\* are visible ASCII
ToStrOk(h) == h.present /\ \A i \in DOMAIN h.value : IsVisible(h.value[i])

\* str.split(',').next()
FirstField(str) ==
    IF \A i \in DOMAIN str : str[i] # "," THEN str
    ELSE SubSeq(str, 1, (CHOOSE i \in DOMAIN str :
                            str[i] = "," /\ \A k \in 1..(i - 1) : str[k] # ",") - 1)

\* str.trim()
RECURSIVE Trim(_)
Trim(str) ==
    IF str = <<>> THEN str
    ELSE IF Head(str) = " " THEN Trim(Tail(str))
    ELSE IF str[Len(str)] = " " THEN Trim(SubSeq(str, 1, Len(str) - 1))
    ELSE str

\* get_player: the first X-Forwarded-For field, trimmed, when it is not
\* empty, else the peer address
player_client_ip(xff, addr) ==
    IF ToStrOk(xff) /\ Trim(FirstField(xff.value)) # <<>>
    THEN Trim(FirstField(xff.value))
    ELSE addr

\* get_player: the User-Agent header, "" when it is absent or unreadable
player_user_agent(ua) == IF ToStrOk(ua) THEN ua.value ELSE <<>>

\* mutant of hls_client_ip: the peer address always
hls_client_ip_peer(xff, addr) == addr

\* get_hls_file: the first X-Forwarded-For field, trimmed, when it is not
\* empty, else the peer address
hls_client_ip(xff, addr) ==
    IF ToStrOk(xff) /\ Trim(FirstField(xff.value)) # <<>>
    THEN Trim(FirstField(xff.value))
    ELSE addr

\* get_hls_file: the User-Agent header, "" when it is absent or unreadable
hls_user_agent(ua) == IF ToStrOk(ua) THEN ua.value ELSE <<>>

\* the Cookie header is the list of its "name=value" pairs; get_hls_file takes
\* the value of the first pair named "token", "" when there is none
cookie_token(cookie) ==
    IF ~cookie.present \/ \A i \in DOMAIN cookie.value : cookie.value[i].name # "token"
    THEN <<>>
    ELSE cookie.value[CHOOSE i \in DOMAIN cookie.value :
                          /\ cookie.value[i].name = "token"
                          /\ \A k \in 1..(i - 1) : cookie.value[k].name # "token"].value

\* a file name is its stem followed by its extension
EndsWith(file, ext) == file # <<>> /\ file[Len(file)] = ext

\* mutant of Gated: only playlists are gated
GatedPlaylistsOnly(file) == EndsWith(file, ".m3u8")

\* file.ends_with(".m3u8") || file.ends_with(".ts")
Gated(file) == EndsWith(file, ".m3u8") \/ EndsWith(file, ".ts")

\* state.config.server.secret_key
ServerSecret == <<"k">>

NoPlayer == [call |-> "none"]

NoHls == [call |-> "none"]

NoIssue == [call |-> "none"]

NoVerify == [call |-> "none"]

\* no token has been issued or verified
TokenIdle ==
    /\ clock = 0 /\ issued = NoIssue /\ verified = NoVerify
    /\ player = NoPlayer /\ hls = NoHls

\* ------------------------------------------------------------------ presence

\* format!("{}-{}", ip, user_agent)
viewer_id(ip, user_agent) == ip \o <<"-">> \o user_agent

\* now.duration_since(last_seen): zero when last_seen is the later instant
DurationSince(now, last_seen) == IF now >= last_seen THEN now - last_seen ELSE 0

\* mutant of Fresh: a heartbeat of exactly the window's age is kept
FreshInclusive(now, last_seen) == DurationSince(now, last_seen) <= PresenceWindow

\* the retain predicate: now.duration_since(last_seen) < 30 s
Fresh(now, last_seen) == DurationSince(now, last_seen) < PresenceWindow

\* video_viewers.retain(..)
RetainFresh(video_viewers, now) ==
    [k \in {x \in DOMAIN video_viewers : Fresh(now, video_viewers[x])} |->
        video_viewers[k]]

\* mutant of Evict: the videos left without a viewer are kept
EvictKeepEmpty(viewers, now) ==
    [v \in DOMAIN viewers |-> RetainFresh(viewers[v], now)]

\* the loop over viewers.iter_mut(), then viewers.retain(|_, v| !v.is_empty())
Evict(viewers, now) ==
    [v \in {x \in DOMAIN viewers : DOMAIN RetainFresh(viewers[x], now) # {}} |->
        RetainFresh(viewers[v], now)]

\* active_counts: video_viewers.len() of the videos left with a viewer
ActiveCounts(viewers, now) ==
    [v \in DOMAIN Evict(viewers, now) |-> Cardinality(DOMAIN Evict(viewers, now)[v])]

\* yield Ok(Event::default().data(json)): the stream is one frame longer
Emit(frames, frame) ==
    IF Len(frames) < MaxFrames THEN Append(frames, frame)
    ELSE Append(Tail(frames), frame)

ScanSleeping == [pc |-> "sleeping"]

\* no heartbeat received, the stream in its first sleep, nothing emitted
PresenceIdle ==
    /\ instant = 0 /\ active_viewers = <<>>
    /\ scan = ScanSleeping /\ counts = <<>>

\* ------------------------------------------------------------------ helpers

\* now_millis(): the clock advances by one from one request to the next
now_millis == started + 1

\* HashMap::insert
Put(map, k, v) == (k :> v) @@ map

\* mutant of Remove: the entry stays in the map
RemoveNothing(map, k) == map

\* HashMap::remove
Remove(map, k) == [x \in (DOMAIN map) \ {k} |-> map[x]]

\* file_name.replace(&['.'][..], "_")
SanitizedName(f) ==
    CASE f = "a.mp4" -> "a_mp4"
      [] f = "b.mp4" -> "b_mp4"
      [] OTHER -> f

\* a ProgressUpdate value (details is free text and is left out)
ProgressUpdate(stage, cur, total, pct, status, error, video_name, created_at, result) ==
    [stage |-> stage, current_chunk |-> cur, total_chunks |-> total,
     percentage |-> pct, status |-> status, error |-> error,
     video_name |-> video_name, created_at |-> created_at, result |-> result]

\* mutant of update_progress: the incoming created_at overwrites the stored one
update_progress_overwrite(map, upload_id, update) == Put(map, upload_id, update)

\* update_progress: keep the created_at of an existing entry, then insert
update_progress(map, upload_id, update) ==
    IF upload_id \in DOMAIN map
    THEN Put(map, upload_id, [update EXCEPT !.created_at = map[upload_id].created_at])
    ELSE Put(map, upload_id, update)

\* result: None
NoResult == [player_url |-> None, upload_id |-> None]

IsTerminal(e) == e.status \in {"completed", "failed"}

Idle == [op |-> "idle"]
NoResp == [op |-> "none", uid |-> None, code |-> None]
NoDir == [exists |-> FALSE, files |-> <<>>]
IdleJob == [pc |-> "unused"]

\* a request is placed in the lowest free slot
FreeSlot(s) == req[s] = Idle /\ \A t \in Slots : t < s => req[t] # Idle

\* the handler in slot s returns `code`
Return(s, op, u, code) ==
    /\ req' = [req EXCEPT ![s] = Idle]
    /\ resp' = [op |-> op, uid |-> u, code |-> code]

\* a handler that returns on its first step
Respond(op, u, code) ==
    /\ resp' = [op |-> op, uid |-> u, code |-> code]
    /\ UNCHANGED req

\* a run of the handlers is followed up to the first background job they
\* spawn: a handler that may spawn one starts only while none is spawned or
\* about to be
SpawningReqs == {s \in Slots : req[s].op \in {"upload_video", "finalize"}}
CanSpawn == jobs[1] = IdleJob /\ SpawningReqs = {}

\* the background task as spawned: nothing probed yet
NewJob(u, name, input) ==
    [pc |-> "start", uid |-> u, video_name |-> name, input |-> input,
     height |-> 0, tasks |-> <<>>, thumb |-> "none", master |-> FALSE,
     playlist |-> <<>>,
     uploaded |-> 0, puts |-> 0, put_failed |-> FALSE, err |-> None]

\* tokio::spawn(async move { ... })
Spawn(u, name, input) == jobs' = [jobs EXCEPT ![1] = NewJob(u, name, input)]

NoCall == [fn |-> "none"]

\* the services beside the upload pipeline have not been called
NoStream == [pc |-> "none"]

\* a tokio RwLock: the writer or the readers that hold it, and the queue of
\* the requests that wait for it, oldest first
FreeLock == [w |-> 0, r |-> {}, q |-> <<>>]

IdleTask == [path |-> <<>>, pc |-> 0, waiting |-> FALSE]

\* nobody holds or awaits chunked_uploads ("rec") or progress ("prog")
LocksIdle ==
    sync = [th |-> [t \in LockTasks |-> IdleTask], rec |-> FreeLock, prog |-> FreeLock]

ServicesIdle ==
    TokenIdle /\ PresenceIdle /\ call = NoCall /\ sse = NoStream /\ LocksIdle

Init ==
    /\ progress = <<>>
    /\ chunked_uploads = <<>>
    /\ dirs = [u \in UploadIds |-> NoDir]
    /\ req = [s \in Slots |-> Idle]
    /\ resp = NoResp
    /\ jobs = [j \in JobIds |-> IdleJob]
    /\ permits = SemaphoreCapacity
    /\ started = 0
    /\ ServicesIdle

\* ------------------------------------------------------------------ upload_chunk

\* vec![false; total_chunks as usize]
NoneReceived(total) == [k \in 1..total |-> FALSE]

\* received_chunks.iter().filter(|&&r| r).count()
ReceivedCount(received) == Cardinality({k \in 1..Len(received) : received[k]})

\* the request arrives; under the chunked_uploads write lock the reassembly
\* record, its directory and the first progress entry are created if absent
ChunkInit(s, u, i, t, f, d) ==
    /\ FreeSlot(s)
    /\ started < MaxRequests
    /\ started' = started + 1
    /\ req' = [req EXCEPT ![s] =
                 [op |-> "upload_chunk", pc |-> "write", uid |-> u,
                  chunk_index |-> i, total_chunks |-> t, file_name |-> f,
                  data |-> d, received_count |-> 0]]
    /\ IF u \notin DOMAIN chunked_uploads
       THEN /\ dirs' = [dirs EXCEPT ![u] = [exists |-> TRUE, files |-> @.files]]
            /\ chunked_uploads' = Put(chunked_uploads, u,
                   [file_name |-> f, total_chunks |-> t,
                    received_chunks |-> NoneReceived(t)])
            /\ progress' = Put(progress, u,
                   ProgressUpdate("Receiving chunks", 0, t, 0, "processing", None,
                                  SanitizedName(f), now_millis, NoResult))
       ELSE UNCHANGED <<dirs, chunked_uploads, progress>>
    /\ UNCHANGED <<resp, jobs, permits>>
    /\ UNCHANGED beside_pipeline

\* mutant of WriteChunk: the bytes are appended to a chunk file that exists
WriteChunkAppend(files, i, data) ==
    IF i \in DOMAIN files THEN Put(files, i, files[i] \o data) ELSE Put(files, i, data)

\* fs::write creates the chunk file or replaces its whole contents
WriteChunk(files, i, data) == Put(files, i, data)

\* fs::write(temp_dir.join(chunk_{:06}), data): fails when the directory is gone
ChunkWrite(s) ==
    /\ req[s].op = "upload_chunk" /\ req[s].pc = "write"
    /\ LET u == req[s].uid IN
       IF dirs[u].exists
       THEN /\ dirs' = [dirs EXCEPT ![u].files =
                            WriteChunk(@, req[s].chunk_index, req[s].data)]
            /\ req' = [req EXCEPT ![s].pc = "mark"]
            /\ UNCHANGED resp
       ELSE /\ Return(s, "upload_chunk", u, "500")
            /\ UNCHANGED dirs
    /\ UNCHANGED <<progress, chunked_uploads, jobs, permits, started>>
    /\ UNCHANGED beside_pipeline

\* upload.received_chunks[chunk_index as usize] = true
MarkReceived(received, i) == [received EXCEPT ![i + 1] = TRUE]

\* received_chunks[chunk_index] = true under the write lock; the index
\* operation panics when chunk_index is outside the record's vector
ChunkMark(s) ==
    /\ req[s].op = "upload_chunk" /\ req[s].pc = "mark"
    /\ LET u == req[s].uid
           i == req[s].chunk_index IN
       IF u \in DOMAIN chunked_uploads
       THEN IF i < Len(chunked_uploads[u].received_chunks)
            THEN /\ chunked_uploads' = [chunked_uploads EXCEPT
                        ![u].received_chunks = MarkReceived(@, i)]
                 /\ req' = [req EXCEPT ![s].pc = "count"]
                 /\ UNCHANGED resp
            ELSE /\ Return(s, "upload_chunk", u, "panic")
                 /\ UNCHANGED chunked_uploads
       ELSE /\ req' = [req EXCEPT ![s].pc = "count"]
            /\ UNCHANGED <<resp, chunked_uploads>>
    /\ UNCHANGED <<progress, dirs, jobs, permits, started>>
    /\ UNCHANGED beside_pipeline

\* received_count is read under the read lock (0 when the record is gone)
ChunkCount(s) ==
    /\ req[s].op = "upload_chunk" /\ req[s].pc = "count"
    /\ LET u == req[s].uid IN
       req' = [req EXCEPT ![s].pc = "progress",
                          ![s].received_count =
                              IF u \in DOMAIN chunked_uploads
                              THEN ReceivedCount(chunked_uploads[u].received_chunks)
                              ELSE 0]
    /\ UNCHANGED <<progress, chunked_uploads, dirs, resp, jobs, permits, started>>
    /\ UNCHANGED beside_pipeline

\* (received_count * 100) / total_chunks with the request's total_chunks
\* (a division by zero panics), then update_progress and the 200 response
ChunkProgress(s) ==
    /\ req[s].op = "upload_chunk" /\ req[s].pc = "progress"
    /\ LET u == req[s].uid
           t == req[s].total_chunks
           c == req[s].received_count IN
       IF t = 0
       THEN /\ Return(s, "upload_chunk", u, "panic")
            /\ UNCHANGED progress
       ELSE /\ progress' = update_progress(progress, u,
                   ProgressUpdate("Receiving chunks", c, t, (c * 100) \div t,
                                  "processing", None, SanitizedName(req[s].file_name),
                                  0, NoResult))
            /\ Return(s, "upload_chunk", u, "200")
    /\ UNCHANGED <<chunked_uploads, dirs, jobs, permits, started>>
    /\ UNCHANGED beside_pipeline

\* ------------------------------------------------------------------ finalize

\* mutant of AllReceived: the last chunk is not looked at
AllReceivedButLast(received) == \A k \in 1..(Len(received) - 1) : received[k]

\* chunked_upload.received_chunks.iter().all(|&r| r)
AllReceived(received) == \A k \in 1..Len(received) : received[k]

\* mutant of AssembleFrom: chunks are appended in descending index order
AssembleDescending(files, i, total) ==
    LET RECURSIVE Down(_)
        Down(k) == IF k < i THEN <<>> ELSE files[k] \o Down(k - 1)
    IN Down(total - 1)

\* for i in 0..total_chunks { read chunk_{i:06}; final_file.write_all(buffer) }
RECURSIVE AssembleFrom(_, _, _)
AssembleFrom(files, i, total) ==
    IF i >= total THEN <<>> ELSE files[i] \o AssembleFrom(files, i + 1, total)

\* the record is removed under the write lock (404 when absent), then the
\* received vector of the removed record is checked (400 when incomplete)
FinalizeTake(s, u, name) ==
    /\ FreeSlot(s)
    /\ started < MaxRequests
    /\ CanSpawn \/ u \notin DOMAIN chunked_uploads
    /\ started' = started + 1
    /\ IF u \notin DOMAIN chunked_uploads
       THEN /\ Respond("finalize", u, "404")
            /\ UNCHANGED chunked_uploads
       ELSE /\ chunked_uploads' = Remove(chunked_uploads, u)
            /\ IF AllReceived(chunked_uploads[u].received_chunks)
               THEN /\ req' = [req EXCEPT ![s] =
                          [op |-> "finalize", pc |-> "assembling", uid |-> u,
                           name |-> name, upload |-> chunked_uploads[u],
                           final |-> <<>>]]
                    /\ UNCHANGED resp
               ELSE Respond("finalize", u, "400")
    /\ UNCHANGED <<progress, dirs, jobs, permits>>
    /\ UNCHANGED beside_pipeline

\* update_progress with stage "Assembling file"
FinalizeAssembling(s) ==
    /\ req[s].op = "finalize" /\ req[s].pc = "assembling"
    /\ LET t == req[s].upload.total_chunks IN
       progress' = update_progress(progress, req[s].uid,
           ProgressUpdate("Assembling file", t, t, 100, "processing", None,
                          req[s].name, 0, NoResult))
    /\ req' = [req EXCEPT ![s].pc = "assemble"]
    /\ UNCHANGED <<chunked_uploads, dirs, resp, jobs, permits, started>>
    /\ UNCHANGED beside_pipeline

\* the chunk files 0..total_chunks-1 are read in index order and appended to
\* the final file; a chunk file that cannot be opened is a 500
FinalizeAssemble(s) ==
    /\ req[s].op = "finalize" /\ req[s].pc = "assemble"
    /\ LET u == req[s].uid
           t == req[s].upload.total_chunks IN
       IF dirs[u].exists /\ \A i \in 0..(t - 1) : i \in DOMAIN dirs[u].files
       THEN /\ req' = [req EXCEPT ![s].pc = "cleanup",
                                  ![s].final = AssembleFrom(dirs[u].files, 0, t)]
            /\ UNCHANGED resp
       ELSE Return(s, "finalize", u, "500")
    /\ UNCHANGED <<progress, chunked_uploads, dirs, jobs, permits, started>>
    /\ UNCHANGED beside_pipeline

\* fs::remove_dir_all(&chunked_upload.temp_dir)
FinalizeCleanup(s) ==
    /\ req[s].op = "finalize" /\ req[s].pc = "cleanup"
    /\ dirs' = [dirs EXCEPT ![req[s].uid] = NoDir]
    /\ req' = [req EXCEPT ![s].pc = "queue"]
    /\ UNCHANGED <<progress, chunked_uploads, resp, jobs, permits, started>>
    /\ UNCHANGED beside_pipeline

\* update_progress with stage "Queued for processing", tokio::spawn, 200
FinalizeQueue(s) ==
    /\ req[s].op = "finalize" /\ req[s].pc = "queue"
    /\ progress' = update_progress(progress, req[s].uid,
           ProgressUpdate("Queued for processing", 0, 1, 0, "processing", None,
                          req[s].name, 0, NoResult))
    /\ Spawn(req[s].uid, req[s].name, req[s].final)
    /\ Return(s, "finalize", req[s].uid, "200")
    /\ UNCHANGED <<chunked_uploads, dirs, permits, started>>
    /\ UNCHANGED beside_pipeline

\* ------------------------------------------------------------------ cancel_queue

\* mutant of is_cancellable: an entry in "FFmpeg processing" may be cancelled too
is_cancellable_late(p) ==
    \/ p.status = "initializing"
    \/ /\ p.status = "processing"
       /\ p.stage \in {"Initializing upload", "Queued for processing",
                        "Receiving chunks", "FFmpeg processing"}

\* status == "initializing" || (status == "processing" && cancellable_stages.contains(stage))
is_cancellable(p) ==
    \/ p.status = "initializing"
    \/ /\ p.status = "processing"
       /\ p.stage \in {"Initializing upload", "Queued for processing", "Receiving chunks"}

\* mutant of cancelled_progress: created_at is taken from the clock
cancelled_progress_now(p) ==
    ProgressUpdate("Cancelled", 0, p.total_chunks, 0, "failed", "Cancelled by user",
                   p.video_name, now_millis, NoResult)

\* the entry cancel_queue stores
cancelled_progress(p) ==
    ProgressUpdate("Cancelled", 0, p.total_chunks, 0, "failed", "Cancelled by user",
                   p.video_name, p.created_at, NoResult)

\* under the progress write lock: 404 when absent, 409 when not cancellable,
\* otherwise the cancelled entry is inserted and the lock dropped
CancelCheck(s, u) ==
    /\ FreeSlot(s)
    /\ started < MaxRequests
    /\ started' = started + 1
    /\ IF u \notin DOMAIN progress
       THEN /\ Respond("cancel_queue", u, "404")
            /\ UNCHANGED progress
       ELSE IF ~is_cancellable(progress[u])
            THEN /\ Respond("cancel_queue", u, "409")
                 /\ UNCHANGED progress
            ELSE /\ progress' = Put(progress, u, cancelled_progress(progress[u]))
                 /\ req' = [req EXCEPT ![s] =
                        [op |-> "cancel_queue", pc |-> "cleanup", uid |-> u]]
                 /\ UNCHANGED resp
    /\ UNCHANGED <<chunked_uploads, dirs, jobs, permits>>
    /\ UNCHANGED beside_pipeline

\* under the chunked_uploads write lock: the record, if any, is removed with
\* its directory; the lock is held until the 200 response
CancelCleanup(s) ==
    /\ req[s].op = "cancel_queue" /\ req[s].pc = "cleanup"
    /\ LET u == req[s].uid IN
       /\ IF u \in DOMAIN chunked_uploads
          THEN /\ chunked_uploads' = Remove(chunked_uploads, u)
               /\ dirs' = [dirs EXCEPT ![u] = NoDir]
          ELSE UNCHANGED <<chunked_uploads, dirs>>
       /\ Return(s, "cancel_queue", u, "200")
    /\ UNCHANGED <<progress, jobs, permits, started>>
    /\ UNCHANGED beside_pipeline

\* ------------------------------------------------------------------ upload_video

\* the request arrives: the "Initializing upload" entry is inserted directly
UploadVideoInit(s, u) ==
    /\ FreeSlot(s)
    /\ started < MaxRequests
    /\ CanSpawn
    /\ started' = started + 1
    /\ progress' = Put(progress, u,
           ProgressUpdate("Initializing upload", 0, 1, 0, "initializing", None,
                          None, now_millis, NoResult))
    /\ req' = [req EXCEPT ![s] = [op |-> "upload_video", pc |-> "fields", uid |-> u]]
    /\ UNCHANGED <<chunked_uploads, dirs, resp, jobs, permits>>
    /\ UNCHANGED beside_pipeline

\* one chunk of the 'file' field is streamed to disk: "Uploading to server"
UploadVideoChunk(s) ==
    /\ req[s].op = "upload_video" /\ req[s].pc = "fields"
    /\ progress' = update_progress(progress, req[s].uid,
           ProgressUpdate("Uploading to server", 0, 1, 0, "processing", None,
                          None, 0, NoResult))
    /\ UNCHANGED <<chunked_uploads, dirs, req, resp, jobs, permits, started>>
    /\ UNCHANGED beside_pipeline

\* a multipart read error, or the 'file' or 'name' field is missing
UploadVideoReject(s, code) ==
    /\ req[s].op = "upload_video" /\ req[s].pc = "fields"
    /\ Return(s, "upload_video", req[s].uid, code)
    /\ UNCHANGED <<progress, chunked_uploads, dirs, jobs, permits, started>>
    /\ UNCHANGED beside_pipeline

\* all fields read: "Queued for processing", tokio::spawn, 200
UploadVideoQueue(s, name) ==
    /\ req[s].op = "upload_video" /\ req[s].pc = "fields"
    /\ progress' = update_progress(progress, req[s].uid,
           ProgressUpdate("Queued for processing", 0, 1, 0, "processing", None,
                          name, 0, NoResult))
    /\ Spawn(req[s].uid, name, <<>>)
    /\ Return(s, "upload_video", req[s].uid, "200")
    /\ UNCHANGED <<chunked_uploads, dirs, permits, started>>
    /\ UNCHANGED beside_pipeline

\* ------------------------------------------------------------------ background job

\* the fixed ladder of get_variants_for_height
all_variants ==
    << [label |-> "480p", height |-> 480], [label |-> "720p", height |-> 720],
       [label |-> "1080p", height |-> 1080], [label |-> "1440p", height |-> 1440] >>

\* mutant of get_variants_for_height: only the variants below the source
get_variants_below_height(original_height) ==
    SelectSeq(all_variants, LAMBDA v : v.height < original_height)

\* all_variants.into_iter().filter(|v| v.height <= original_height).collect()
get_variants_for_height(original_height) ==
    SelectSeq(all_variants, LAMBDA v : v.height <= original_height)

\* (((current_chunk as f32) / (total as f32)) * 100.0) as u32; the f32
\* rounding does not show for totals up to the ladder's four variants
Percentage(cur, total) == (cur * 100) \div total

\* get_video_duration or get_video_height fails: the job's result is Err
JobProbeFail(j) ==
    /\ jobs[j].pc = "start"
    /\ jobs' = [jobs EXCEPT ![j].pc = "result_err", ![j].err = "ffprobe failed"]
    /\ UNCHANGED <<progress, chunked_uploads, dirs, req, resp, permits, started>>
    /\ UNCHANGED beside_pipeline

\* the probes succeed with height h: update_progress "FFmpeg processing"
JobProbe(j, h) ==
    /\ jobs[j].pc = "start"
    /\ progress' = update_progress(progress, jobs[j].uid,
           ProgressUpdate("FFmpeg processing", 0, Len(get_variants_for_height(h)), 0,
                          "processing", None, jobs[j].video_name, 0, NoResult))
    /\ jobs' = [jobs EXCEPT ![j].pc = "encode", ![j].height = h]
    /\ UNCHANGED <<chunked_uploads, dirs, req, resp, permits, started>>
    /\ UNCHANGED beside_pipeline

\* encode_to_hls up to the spawn loop: no variant is an error, otherwise one
\* task per variant and the thumbnail task are spawned
EncodeSpawn(j) ==
    /\ jobs[j].pc = "encode"
    /\ LET n == Len(get_variants_for_height(jobs[j].height)) IN
       IF n = 0
       THEN jobs' = [jobs EXCEPT ![j].pc = "result_err",
                                 ![j].err = "No suitable variants"]
       ELSE jobs' = [jobs EXCEPT
                ![j].pc = "joining",
                ![j].thumb = "running",
                ![j].tasks = [k \in 1..n |->
                    [pc |-> "waiting", video_name |-> None, created_at |-> 0]]]
    /\ UNCHANGED <<progress, chunked_uploads, dirs, req, resp, permits, started>>
    /\ UNCHANGED beside_pipeline

Tasks(j) == IF jobs[j] = IdleJob THEN {} ELSE DOMAIN jobs[j].tasks

\* mutant of PermitAvailable: the semaphore is not consulted
PermitAlways(p) == TRUE

\* semaphore.acquire() completes only while a permit is available
PermitAvailable(p) == p > 0

\* let _permit = semaphore.acquire().await
TaskAcquire(j, k) ==
    /\ k \in Tasks(j) /\ jobs[j].tasks[k].pc = "waiting"
    /\ PermitAvailable(permits)
    /\ permits' = permits - 1
    /\ jobs' = [jobs EXCEPT ![j].tasks[k].pc = "acquired"]
    /\ UNCHANGED <<progress, chunked_uploads, dirs, req, resp, started>>
    /\ UNCHANGED beside_pipeline

\* (existing_video_name, existing_created_at) read under the read lock
TaskRead(j, k) ==
    /\ k \in Tasks(j) /\ jobs[j].tasks[k].pc = "acquired"
    /\ LET u == jobs[j].uid IN
       jobs' = [jobs EXCEPT
           ![j].tasks[k].pc = "read",
           ![j].tasks[k].video_name =
               IF u \in DOMAIN progress THEN progress[u].video_name ELSE None,
           ![j].tasks[k].created_at =
               IF u \in DOMAIN progress THEN progress[u].created_at ELSE 0]
    /\ UNCHANGED <<progress, chunked_uploads, dirs, req, resp, permits, started>>
    /\ UNCHANGED beside_pipeline

\* the entry a variant task stores before and after its encode
VariantProgress(j, k) ==
    LET n == Len(jobs[j].tasks) IN
    ProgressUpdate("FFmpeg processing", k, n, Percentage(k, n), "processing", None,
                   jobs[j].tasks[k].video_name, jobs[j].tasks[k].created_at, NoResult)

\* start_progress is inserted and the FFmpeg subprocess is launched
TaskStart(j, k) ==
    /\ k \in Tasks(j) /\ jobs[j].tasks[k].pc = "read"
    /\ progress' = Put(progress, jobs[j].uid, VariantProgress(j, k))
    /\ jobs' = [jobs EXCEPT ![j].tasks[k].pc = "running"]
    /\ UNCHANGED <<chunked_uploads, dirs, req, resp, permits, started>>
    /\ UNCHANGED beside_pipeline

\* the FFmpeg subprocess exits, with status zero or not
FfmpegExit(j, k, ok) ==
    /\ k \in Tasks(j) /\ jobs[j].tasks[k].pc = "running"
    /\ jobs' = [jobs EXCEPT ![j].tasks[k].pc = IF ok THEN "exited_ok" ELSE "exited_err"]
    /\ UNCHANGED <<progress, chunked_uploads, dirs, req, resp, permits, started>>
    /\ UNCHANGED beside_pipeline

\* cmd.output() returned success: updated_progress is inserted, the task
\* returns Ok and _permit is dropped
TaskFinish(j, k) ==
    /\ k \in Tasks(j) /\ jobs[j].tasks[k].pc = "exited_ok"
    /\ progress' = Put(progress, jobs[j].uid, VariantProgress(j, k))
    /\ permits' = permits + 1
    /\ jobs' = [jobs EXCEPT ![j].tasks[k].pc = "done_ok"]
    /\ UNCHANGED <<chunked_uploads, dirs, req, resp, started>>
    /\ UNCHANGED beside_pipeline

\* cmd.output() returned a non-zero status: bail!, _permit is dropped
TaskBail(j, k) ==
    /\ k \in Tasks(j) /\ jobs[j].tasks[k].pc = "exited_err"
    /\ permits' = permits + 1
    /\ jobs' = [jobs EXCEPT ![j].tasks[k].pc = "done_err"]
    /\ UNCHANGED <<progress, chunked_uploads, dirs, req, resp, started>>
    /\ UNCHANGED beside_pipeline

\* the thumbnail task ends: Ok whatever the exit status, Err when FFmpeg
\* could not be run
ThumbExit(j, outcome) ==
    /\ jobs[j] # IdleJob /\ jobs[j].thumb = "running"
    /\ jobs' = [jobs EXCEPT ![j].thumb = outcome]
    /\ UNCHANGED <<progress, chunked_uploads, dirs, req, resp, permits, started>>
    /\ UNCHANGED beside_pipeline

\* the variant tasks that have returned Err
FailedTasks(tasks) == {k \in DOMAIN tasks : tasks[k].pc = "done_err"}

\* the label of variant k of the job: "ffmpeg exited with status .. for variant {label}"
VariantLabel(j, k) == get_variants_for_height(jobs[j].height)[k].label

\* mutant of JoinFailed: the Err of the thumbnail task is not looked at
JoinFailedVariantOnly(tasks, thumb) == FailedTasks(tasks) # {}

\* try_join_all has an Err to return: a task polled so far has returned Err
JoinFailed(tasks, thumb) == FailedTasks(tasks) # {} \/ thumb = "err"

\* mutant of JoinOk: the variant tasks only need to have ended
JoinOkAllEnded(tasks, thumb) ==
    /\ \A k \in DOMAIN tasks : tasks[k].pc \in {"done_ok", "done_err"}
    /\ thumb = "ok"

\* try_join_all has its Ok to return: every task has returned Ok
JoinOk(tasks, thumb) ==
    /\ \A k \in DOMAIN tasks : tasks[k].pc = "done_ok"
    /\ thumb = "ok"

\* the Err try_join_all returns: the handles are polled in the order they
\* were pushed, variants first and the thumbnail last, and the first Err
\* found is returned
JoinError(j) ==
    LET failed == FailedTasks(jobs[j].tasks) IN
    IF failed # {}
    THEN VariantLabel(j, CHOOSE k \in failed : \A i \in failed : k <= i)
    ELSE "failed to generate thumbnail"

\* try_join_all: Err as soon as one task has returned Err, Ok when all have
\* returned Ok; the other tasks stay detached and run on
EncodeJoin(j) ==
    /\ jobs[j].pc = "joining"
    /\ LET t == jobs[j].tasks IN
       \/ /\ JoinFailed(t, jobs[j].thumb)
          /\ jobs' = [jobs EXCEPT ![j].pc = "result_err", ![j].err = JoinError(j)]
       \/ /\ JoinOk(t, jobs[j].thumb)
          /\ jobs' = [jobs EXCEPT ![j].pc = "master"]
    /\ UNCHANGED <<progress, chunked_uploads, dirs, req, resp, permits, started>>
    /\ UNCHANGED beside_pipeline

\* the relative URI "{label}/index.m3u8"
VariantPlaylist(label) == <<label, "index.m3u8">>

\* master_content: for each variant of get_variants_for_height of the height
\* probed again (the same file, so the same height), one #EXT-X-STREAM-INF
\* line followed by the variant's playlist URI
MasterContent(height) ==
    LET variants_ref == get_variants_for_height(height) IN
    [k \in DOMAIN variants_ref |->
        [stream_inf |-> variants_ref[k].height, uri |-> VariantPlaylist(variants_ref[k].label)]]

\* the master playlist: get_video_height again, then fs::write of
\* {out_dir}/index.m3u8; either can fail
MasterPlaylist(j, ok) ==
    /\ jobs[j].pc = "master"
    /\ jobs' = IF ok
               THEN [jobs EXCEPT ![j].pc = "encoded", ![j].master = TRUE,
                                 ![j].playlist = MasterContent(jobs[j].height)]
               ELSE [jobs EXCEPT ![j].pc = "result_err",
                                 ![j].err = "failed to write master playlist"]
    /\ UNCHANGED <<progress, chunked_uploads, dirs, req, resp, permits, started>>
    /\ UNCHANGED beside_pipeline

\* between encode_to_hls and the upload: create_dir_all of the subtitle or
\* font directory or extract_all_attachments fails
JobExtractFail(j) ==
    /\ jobs[j].pc = "encoded"
    /\ jobs' = [jobs EXCEPT ![j].pc = "result_err", ![j].err = "extract failed"]
    /\ UNCHANGED <<progress, chunked_uploads, dirs, req, resp, permits, started>>
    /\ UNCHANGED beside_pipeline

\* update_progress "Upload to R2" before upload_hls_to_r2
UploadStart(j) ==
    /\ jobs[j].pc = "encoded"
    /\ progress' = update_progress(progress, jobs[j].uid,
           ProgressUpdate("Upload to R2", 0, 1, 0, "processing", None,
                          jobs[j].video_name, 0, NoResult))
    /\ jobs' = [jobs EXCEPT ![j].pc = "uploading"]
    /\ UNCHANGED <<chunked_uploads, dirs, req, resp, permits, started>>
    /\ UNCHANGED beside_pipeline

\* files_to_upload.len(): the master playlist and one playlist per variant
TotalFiles(j) == 1 + Len(jobs[j].tasks)

\* one PUT ends. On success the counter is incremented and an "Upload to R2"
\* entry is inserted; the literal in upload_hls_to_r2 names neither
\* video_name nor created_at, so they are either those of the stored entry
\* (keep) or empty
UploadPut(j, ok, keep) ==
    /\ jobs[j].pc = "uploading" /\ jobs[j].puts < TotalFiles(j)
    /\ LET u == jobs[j].uid
           cur == jobs[j].uploaded + 1
           old == IF keep /\ u \in DOMAIN progress
                  THEN progress[u]
                  ELSE [video_name |-> None, created_at |-> 0] IN
       IF ok
       THEN /\ progress' = Put(progress, u,
                   ProgressUpdate("Upload to R2", cur, TotalFiles(j),
                                  Percentage(cur, TotalFiles(j)), "processing", None,
                                  old.video_name, old.created_at, NoResult))
            /\ jobs' = [jobs EXCEPT ![j].puts = @ + 1, ![j].uploaded = cur]
       ELSE /\ ~keep
            /\ jobs' = [jobs EXCEPT ![j].puts = @ + 1, ![j].put_failed = TRUE]
            /\ UNCHANGED progress
    /\ UNCHANGED <<chunked_uploads, dirs, req, resp, permits, started>>
    /\ UNCHANGED beside_pipeline

\* mutant of UploadFailed: the results of the PUTs are not looked at
UploadFailedNever(job) == FALSE

\* for result in upload_results { result?; }: a PUT has returned Err
UploadFailed(job) == job.put_failed

\* every PUT has ended: the first error, if any, is the uploader's result
UploadDone(j) ==
    /\ jobs[j].pc = "uploading" /\ jobs[j].puts = TotalFiles(j)
    /\ jobs' = IF UploadFailed(jobs[j])
               THEN [jobs EXCEPT ![j].pc = "result_err", ![j].err = "upload failed"]
               ELSE [jobs EXCEPT ![j].pc = "saving"]
    /\ UNCHANGED <<progress, chunked_uploads, dirs, req, resp, permits, started>>
    /\ UNCHANGED beside_pipeline

\* save_video returns
SaveVideo(j, ok) ==
    /\ jobs[j].pc = "saving"
    /\ jobs' = IF ok
               THEN [jobs EXCEPT ![j].pc = "result_ok"]
               ELSE [jobs EXCEPT ![j].pc = "result_err", ![j].err = "save_video failed"]
    /\ UNCHANGED <<progress, chunked_uploads, dirs, req, resp, permits, started>>
    /\ UNCHANGED beside_pipeline

\* match result: the "Completed" or the "Failed" entry through update_progress
JobResult(j) ==
    /\ jobs[j].pc \in {"result_ok", "result_err"}
    /\ LET u == jobs[j].uid IN
       progress' = update_progress(progress, u,
           IF jobs[j].pc = "result_ok"
           THEN ProgressUpdate("Completed", 1, 1, 100, "completed", None,
                               jobs[j].video_name, 0,
                               [player_url |-> "/player/out", upload_id |-> u])
           ELSE ProgressUpdate("Failed", 0, 1, 0, "failed", jobs[j].err,
                               jobs[j].video_name, 0, NoResult))
    /\ jobs' = [jobs EXCEPT ![j].pc = "sleeping"]
    /\ UNCHANGED <<chunked_uploads, dirs, req, resp, permits, started>>
    /\ UNCHANGED beside_pipeline

\* after the sleep: the entry is removed if its status is completed or failed
JobCleanup(j) ==
    /\ jobs[j].pc = "sleeping"
    /\ LET u == jobs[j].uid IN
       progress' = IF u \in DOMAIN progress /\ IsTerminal(progress[u])
                   THEN Remove(progress, u)
                   ELSE progress
    /\ jobs' = [jobs EXCEPT ![j].pc = "finished"]
    /\ UNCHANGED <<chunked_uploads, dirs, req, resp, permits, started>>
    /\ UNCHANGED beside_pipeline

\* the detached job task panics or is aborted before it has stored its
\* result: it is not supervised, nothing of it runs afterwards; the variant
\* and thumbnail tasks it has spawned are tasks of their own and run on
JobPanic(j) ==
    /\ jobs[j].pc \in {"start", "encode", "joining", "master", "encoded",
                       "uploading", "saving", "result_ok", "result_err"}
    /\ jobs' = [jobs EXCEPT ![j].pc = "panicked"]
    /\ UNCHANGED <<progress, chunked_uploads, dirs, req, resp, permits, started>>
    /\ UNCHANGED beside_pipeline

\* ------------------------------------------------------------------ get_player, get_hls_file

\* SystemTime::now() gives another reading (the system clock is not monotonic)
ClockSet(t) ==
    /\ t # clock
    /\ clock' = t
    /\ UNCHANGED <<issued, verified, player, hls>>
    /\ UNCHANGED beside_tokens

\* get_player: generate_token for the request's id, address and user agent
\* under the configured secret; the token goes out in the cookie
IssueToken(v, k, ip, ua) ==
    /\ issued' = [call |-> "generate_token", video_id |-> v, secret |-> k, ip |-> ip,
                  user_agent |-> ua, at |-> clock,
                  token |-> generate_token(v, k, ip, ua, clock)]
    /\ verified' = NoVerify
    /\ UNCHANGED <<clock, player, hls>>
    /\ UNCHANGED beside_tokens

\* get_hls_file: verify_token of the cookie's token for the request's id,
\* address and user agent under the configured secret
CheckToken(v, k, ip, ua) ==
    /\ issued # NoIssue
    /\ verified' = [call |-> "verify_token", video_id |-> v, secret |-> k, ip |-> ip,
                    user_agent |-> ua, at |-> clock,
                    answer |-> verify_token(v, issued.token, k, ip, ua, clock)]
    /\ UNCHANGED <<clock, issued, player, hls>>
    /\ UNCHANGED beside_tokens

\* get_player: the token for the path's id, the resolved client address and
\* the user agent goes out in the Set-Cookie header "token=...; Path=/"
GetPlayer(id, addr, xff, ua) ==
    /\ player' = [call |-> "get_player", id |-> id, addr |-> addr, xff |-> xff,
                  ua |-> ua,
                  token |-> generate_token(id, ServerSecret, player_client_ip(xff, addr),
                                           player_user_agent(ua), clock)]
    /\ hls' = NoHls
    /\ UNCHANGED <<clock, issued, verified>>
    /\ UNCHANGED beside_tokens

\* get_hls_file: a gated file whose cookie token does not verify answers 403;
\* otherwise get_object is sent to the store, and answers 200 or, when the
\* store fails, 500
GetHlsFile(id, file, addr, xff, ua, cookie, found) ==
    /\ hls' = [call |-> "get_hls_file", id |-> id, file |-> file, addr |-> addr,
               xff |-> xff, ua |-> ua, cookie |-> cookie, at |-> clock] @@
              (IF Gated(file)
                  /\ ~verify_token(id, cookie_token(cookie), ServerSecret,
                                   hls_client_ip(xff, addr), hls_user_agent(ua), clock)
               THEN [status |-> "403", read |-> FALSE]
               ELSE [status |-> IF found THEN "200" ELSE "500", read |-> TRUE])
    /\ UNCHANGED <<clock, issued, verified, player>>
    /\ UNCHANGED beside_tokens

\* ------------------------------------------------------------------ heartbeat, get_realtime_analytics

\* Instant::now() moves on
InstantAdvance(t) ==
    /\ t > instant
    /\ instant' = t
    /\ UNCHANGED <<active_viewers, scan, counts>>
    /\ UNCHANGED beside_presence

\* heartbeat: viewers.entry(video_id).or_default().insert(viewer_id, now)
Heartbeat(video_id, ip, user_agent) ==
    /\ active_viewers' =
          Put(active_viewers, video_id,
              Put(IF video_id \in DOMAIN active_viewers THEN active_viewers[video_id] ELSE <<>>,
                  viewer_id(ip, user_agent), instant))
    /\ UNCHANGED <<instant, scan, counts>>
    /\ UNCHANGED beside_presence

\* the stream wakes from its 2 s sleep and reads Instant::now()
ScanWake ==
    /\ scan.pc = "sleeping"
    /\ scan' = [pc |-> "timed", now |-> instant]
    /\ UNCHANGED <<instant, active_viewers, counts>>
    /\ UNCHANGED beside_presence

\* under the write lock: the expired viewers and the empty videos are
\* removed, the counts of the others are emitted
ScanEvict ==
    /\ scan.pc = "timed"
    /\ active_viewers' = Evict(active_viewers, scan.now)
    /\ counts' = Emit(counts, ActiveCounts(active_viewers, scan.now))
    /\ scan' = ScanSleeping
    /\ UNCHANGED instant
    /\ UNCHANGED beside_presence

\* ------------------------------------------------------------------ list_queues

\* the sequences that hold each element of S once: the orders in which a
\* HashMap may be iterated
RECURSIVE Orders(_)
Orders(S) ==
    IF S = {} THEN {<<>>}
    ELSE UNION {{<<x>> \o rest : rest \in Orders(S \ {x})} : x \in S}

\* .map(|(id, p)| QueueItem { .. })
QueueItem(id, p) ==
    [upload_id |-> id, stage |-> p.stage, current_chunk |-> p.current_chunk,
     total_chunks |-> p.total_chunks, percentage |-> p.percentage,
     status |-> p.status, video_name |-> p.video_name, created_at |-> p.created_at]

\* a stable sort places an item behind the items whose key is not greater
InsertByKey(sorted, item) ==
    LET before == SelectSeq(sorted, LAMBDA x : x.created_at <= item.created_at)
        after == SelectSeq(sorted, LAMBDA x : x.created_at > item.created_at)
    IN before \o <<item>> \o after

RECURSIVE SortFrom(_, _)
SortFrom(sorted, items) ==
    IF items = <<>> THEN sorted
    ELSE SortFrom(InsertByKey(sorted, Head(items)), Tail(items))

\* mutant of sort_by_key: the items stay in the order of the iteration
sort_by_key_skipped(items) == items

\* items.sort_by_key(|item| item.created_at)
sort_by_key(items) == SortFrom(<<>>, items)

CountOf(items, statuses) == Len(SelectSeq(items, LAMBDA x : x.status \in statuses))

\* list_queues, with `order` the order in which progress_map.iter() yields
list_queues(progress_map, order) ==
    LET items == sort_by_key([i \in DOMAIN order |->
                                 QueueItem(order[i], progress_map[order[i]])]) IN
    [items |-> items,
     active_count |-> CountOf(items, {"processing", "initializing"}),
     completed_count |-> CountOf(items, {"completed"}),
     failed_count |-> CountOf(items, {"failed"})]

\* GET /api/queues
ListQueues(order) ==
    /\ order \in Orders(DOMAIN progress)
    /\ call' = [fn |-> "list_queues", registry |-> progress, order |-> order,
                result |-> list_queues(progress, order)]
    /\ UNCHANGED pipeline_vars
    /\ UNCHANGED beside_calls

\* a later update of an entry: update_progress with a new stage
QueueUpdate(u, stage, status) ==
    /\ u \in DOMAIN progress
    /\ progress' = update_progress(progress, u,
           ProgressUpdate(stage, 0, 1, 0, status, None, "v", 0, NoResult))
    /\ UNCHANGED <<chunked_uploads, dirs, req, resp, jobs, permits, started>>
    /\ UNCHANGED beside_pipeline

\* ------------------------------------------------------------------ upload_hls_to_r2

\* the names read_dir yields for the directory at path dir of the tree
DirEntries(tree, dir) ==
    {p[Len(dir) + 1] : p \in {q \in tree : Len(q) > Len(dir) /\ SubSeq(q, 1, Len(dir)) = dir}}

\* path.is_dir(): the entry holds further paths
IsDir(tree, path) == \E q \in tree : Len(q) > Len(path) /\ SubSeq(q, 1, Len(path)) = path

\* prefix.matches('/').count()
SlashCount(prefix) == Cardinality({i \in DOMAIN prefix : prefix[i] = "/"})

\* mutant of IsMasterPlaylist: an index.m3u8 at any depth is tracked
IsMasterPlaylistAnyDepth(file_name, prefix) == file_name = "index.m3u8"

\* file_name == "index.m3u8" && prefix.matches('/').count() == 1
IsMasterPlaylist(file_name, prefix) ==
    file_name = "index.m3u8" /\ SlashCount(prefix) = 1

\* collect_files: the (path, key) pairs of every file at and below dir, and
\* the keys tracked as master playlist
RECURSIVE collect_files(_, _, _)
collect_files(tree, dir, prefix) ==
    LET names == DirEntries(tree, dir)
        subdirs == {n \in names : IsDir(tree, dir \o <<n>>)}
        plain == {n \in names : dir \o <<n>> \in tree}
        below == [n \in subdirs |-> collect_files(tree, dir \o <<n>>, prefix \o <<n, "/">>)]
    IN
    [files |-> {[path |-> dir \o <<n>>, key |-> prefix \o <<n>>] : n \in plain}
                  \cup UNION {below[n].files : n \in subdirs},
     master |-> {prefix \o <<n>> : n \in {m \in plain : IsMasterPlaylist(m, prefix)}}
                  \cup UNION {below[n].master : n \in subdirs}]

\* the first Err of upload_results, in the order of completion
FirstErr(upload_results) ==
    LET errs == SelectSeq(upload_results, LAMBDA r : ~r.ok) IN
    IF errs = <<>> THEN NoResult ELSE Head(errs)

\* upload_hls_to_r2 is called on an output directory: collect_files either
\* fails on a directory or fills files_to_upload and master_playlist_key
UploaderCall(tree, listed) ==
    /\ call = NoCall
    /\ LET c == collect_files(tree, <<>>, OutputPrefix) IN
       call' = IF listed
               THEN [fn |-> "upload_hls_to_r2", pc |-> "uploading", tree |-> tree,
                     files |-> c.files, master_playlist_key |-> c.master,
                     pending |-> {f.key : f \in c.files}, upload_results |-> <<>>,
                     store |-> {}, result |-> NoResult]
               ELSE [fn |-> "upload_hls_to_r2", pc |-> "returned", tree |-> tree,
                     files |-> {}, master_playlist_key |-> {},
                     pending |-> {}, upload_results |-> <<>>,
                     store |-> {}, result |-> [ok |-> FALSE, err |-> <<"read dir">>]]
    /\ UNCHANGED pipeline_vars
    /\ UNCHANGED beside_calls

\* one file's task ends: fs::read, then put_object, then the progress entry
UploaderPut(key, outcome) ==
    /\ call.fn = "upload_hls_to_r2" /\ call.pc = "uploading"
    /\ key \in call.pending
    /\ LET current == Cardinality(call.store) + 1
           total_files == Cardinality(call.files)
       IN
       IF outcome = "ok"
       THEN /\ call' = [call EXCEPT !.pending = @ \ {key}, !.store = @ \cup {key},
                            !.upload_results = Append(@, [ok |-> TRUE, key |-> key])]
            /\ progress' = Put(progress, "U1",
                   ProgressUpdate("Upload to R2", current, total_files,
                                  Percentage(current, total_files), "processing", None,
                                  None, 0, NoResult))
       ELSE /\ call' = [call EXCEPT !.pending = @ \ {key},
                            !.upload_results =
                                Append(@, [ok |-> FALSE, err |-> <<outcome, key>>])]
            /\ UNCHANGED progress
    /\ UNCHANGED <<chunked_uploads, dirs, req, resp, jobs, permits, started>>
    /\ UNCHANGED beside_calls

\* the stream is collected: the first error, else the master playlist key,
\* else the error of the missing master playlist
UploaderReturn ==
    /\ call.fn = "upload_hls_to_r2" /\ call.pc = "uploading"
    /\ call.pending = {}
    /\ LET first == FirstErr(call.upload_results) IN
       call' = [call EXCEPT !.pc = "returned",
                    !.result =
                        IF first # NoResult THEN [ok |-> FALSE, err |-> first.err]
                        ELSE IF call.master_playlist_key = {}
                        THEN [ok |-> FALSE,
                              err |-> <<"no master playlist (index.m3u8) generated">>]
                        ELSE [ok |-> TRUE,
                              key |-> CHOOSE k \in call.master_playlist_key : TRUE]]
    /\ UNCHANGED pipeline_vars
    /\ UNCHANGED beside_calls

\* ------------------------------------------------------------------ get_progress

\* format!("Bearer {}", ..)
Bearer(x) == <<"Bearer ">> \o x

\* params.get("token") gives the admin password
is_authorized(token) ==
    token.present /\ Bearer(token.value) = Bearer(AdminPassword)

\* Event::default().event("error").data(text)
ErrorEvent(text) == [event |-> "error", data |-> text]

\* Event::default().data(json) of the ProgressResponse built from p
ProgressFrame(p) ==
    [event |-> "message",
     data |-> [stage |-> p.stage, current_chunk |-> p.current_chunk,
               total_chunks |-> p.total_chunks, percentage |-> p.percentage,
               status |-> p.status, result |-> p.result, error |-> p.error]]

NoFrame == [event |-> "none"]

\* the stream as a frame is yielded
Yield(stream, frame) ==
    [stream EXCEPT !.last = frame,
                   !.data = IF frame.event = "message" THEN @ + 1 ELSE @,
                   !.errors = IF frame.event = "error" THEN @ + 1 ELSE @,
                   !.terminals = IF frame.event = "message" /\ IsTerminal(frame.data)
                                 THEN @ + 1 ELSE @]

\* GET /api/progress/{upload_id}?token=..: the stream starts; start_time is
\* taken, or the unauthorized stream yields its error event and returns
ProgressOpen(u, token) ==
    /\ sse = NoStream
    /\ LET fresh == [pc |-> "poll", uid |-> u, elapsed |-> 0, last |-> NoFrame,
                     data |-> 0, errors |-> 0, terminals |-> 0, authorized |-> TRUE]
       IN
       sse' = IF is_authorized(token) THEN fresh
              ELSE [Yield(fresh, ErrorEvent("Unauthorized"))
                       EXCEPT !.pc = "closed", !.authorized = FALSE]
    /\ UNCHANGED beside_stream

\* start_time.elapsed() > timeout
TimedOut(elapsed) == elapsed > StreamTimeout

\* mutant of EndsStream: only a completed entry ends the stream
EndsStreamCompleted(p) == p.status = "completed"

\* p.status == "completed" || p.status == "failed"
EndsStream(p) == p.status = "completed" \/ p.status = "failed"

\* one turn of the loop: the entry is read under the read lock; a found entry
\* is yielded and, when terminal, the stream goes to its last wait; a missing
\* one ends the stream with an error event once the timeout has passed
ProgressPoll ==
    /\ sse.pc = "poll"
    /\ sse' = IF sse.uid \in DOMAIN progress
              THEN LET p == progress[sse.uid] IN
                   [Yield(sse, ProgressFrame(p))
                       EXCEPT !.pc = IF EndsStream(p) THEN "closing" ELSE "sleep"]
              ELSE IF TimedOut(sse.elapsed)
              THEN [Yield(sse, ErrorEvent("Upload ID not found (timeout)"))
                       EXCEPT !.pc = "closed"]
              ELSE [sse EXCEPT !.pc = "sleep"]
    /\ UNCHANGED beside_stream

\* tokio::time::sleep(Duration::from_millis(500)), `late` milliseconds over
ProgressSleep(late) ==
    /\ sse.pc = "sleep"
    /\ sse.elapsed < MaxPolls * PollMillis
    /\ (sse.elapsed % PollMillis) + late <= MaxLate
    /\ sse' = [sse EXCEPT !.pc = "poll", !.elapsed = @ + PollMillis + late]
    /\ UNCHANGED beside_stream

\* tokio::time::sleep(Duration::from_secs(3)), then break: the stream ends
ProgressClose ==
    /\ sse.pc = "closing"
    /\ sse' = [sse EXCEPT !.pc = "closed", !.elapsed = @ + TerminalWait]
    /\ UNCHANGED beside_stream

\* the upload handler's first entry for an upload
EntryQueued(u) ==
    /\ u \notin DOMAIN progress
    /\ progress' = update_progress(progress, u,
           ProgressUpdate("Queued for processing", 0, 1, 0, "processing", None,
                          "v", 1, NoResult))
    /\ UNCHANGED <<chunked_uploads, dirs, req, resp, jobs, permits, started>>
    /\ UNCHANGED beside_pipeline

\* the background task's last step: ten seconds after its result the entry
\* is removed if it is completed or failed
EntryExpire(u) ==
    /\ u \in DOMAIN progress /\ IsTerminal(progress[u])
    /\ progress' = Remove(progress, u)
    /\ UNCHANGED <<chunked_uploads, dirs, req, resp, jobs, permits, started>>
    /\ UNCHANGED beside_pipeline

\* ------------------------------------------------------------------ chapters

\* Option::None and Option::Some
NoneOpt == [some |-> FALSE]
Some(x) == [some |-> TRUE, value |-> x]

\* s.parse::<f64>().ok(), for texts of whole numbers: an optional sign, then
\* one digit or more
ParseF64(str) ==
    LET signed == str # <<>> /\ Head(str) \in {"+", "-"}
        body == IF signed THEN Tail(str) ELSE str
    IN
    IF body # <<>> /\ \A i \in DOMAIN body : IsDigit(body[i])
    THEN Some(IF signed /\ Head(str) = "-" THEN 0 - DecimalValue(body)
              ELSE DecimalValue(body))
    ELSE NoneOpt

\* c[..].as_str().and_then(|s| s.parse::<f64>().ok()).or_else(|| c[..].as_f64())
ChapterTime(json) ==
    LET parsed == IF json.kind = "string" THEN ParseF64(json.text) ELSE NoneOpt IN
    IF parsed.some THEN parsed
    ELSE IF json.kind = "number" THEN Some(json.value) ELSE NoneOpt

\* get_chapters over the "chapters" array of ffprobe's JSON: filter_map keeps
\* the chapters whose two times are read (the title is free text and is left
\* out)
RECURSIVE get_chapters(_)
get_chapters(arr) ==
    IF arr = <<>> THEN <<>>
    ELSE LET start_time == ChapterTime(Head(arr).start_time)
             end_time == ChapterTime(Head(arr).end_time)
             rest == get_chapters(Tail(arr))
         IN
         IF start_time.some /\ end_time.some
         THEN <<[start_time |-> start_time.value, end_time |-> end_time.value]>> \o rest
         ELSE rest

\* get_chapters(&video_path).await.unwrap_or_default(): the probe's chapters,
\* or none when the probe fails
ChaptersProbe(arr, probed) ==
    /\ call = NoCall
    /\ call' = [fn |-> "save_chapters", arr |-> arr,
                chapter_streams |-> IF probed THEN get_chapters(arr) ELSE <<>>,
                idx |-> 0, rows |-> {}]
    /\ UNCHANGED pipeline_vars
    /\ UNCHANGED beside_calls

\* save_chapter: the store inserts the row or answers with an error
save_chapter(rows, ordinal, start_time, end_time, stored) ==
    IF stored
    THEN rows \cup {[ordinal |-> ordinal, start_time |-> start_time,
                     end_time |-> end_time]}
    ELSE rows

\* one turn of the loop over chapter_streams.iter().enumerate(): the chapter
\* is saved under its index; an error is logged and the loop goes on
ChapterSave(stored) ==
    /\ call.fn = "save_chapters"
    /\ call.idx < Len(call.chapter_streams)
    /\ LET chapter == call.chapter_streams[call.idx + 1] IN
       call' = [call EXCEPT !.idx = @ + 1,
                    !.rows = save_chapter(@, call.idx, chapter.start_time,
                                          chapter.end_time, stored)]
    /\ UNCHANGED pipeline_vars
    /\ UNCHANGED beside_calls

\* ------------------------------------------------------------------ the locks of AppState

\* lock.write().await / lock.read().await, and the drop of the guard
Acq(l, m) == [a |-> "acq", l |-> l, m |-> m]
Rel(l) == [a |-> "rel", l |-> l, m |-> "-"]

\* update_progress: the progress write lock around get and insert
update_progress_locks == <<Acq("prog", "W"), Rel("prog")>>

\* upload_chunk: the records write lock, inside it the progress write lock
\* when the record is new; the mark under the write lock, the count under
\* the read lock, then update_progress
upload_chunk_locks ==
    LET rest == <<Acq("rec", "W"), Rel("rec"), Acq("rec", "R"), Rel("rec")>>
                    \o update_progress_locks IN
    {<<Acq("rec", "W"), Acq("prog", "W"), Rel("prog"), Rel("rec")>> \o rest,
     <<Acq("rec", "W"), Rel("rec")>> \o rest,
     <<Acq("rec", "W"), Rel("rec")>>}

\* finalize_chunked_upload: the record is removed under the records write
\* lock; an accepted request then calls update_progress twice
finalize_locks ==
    {<<Acq("rec", "W"), Rel("rec")>>,
     <<Acq("rec", "W"), Rel("rec")>> \o update_progress_locks \o update_progress_locks}

\* mutant of cancel_queue_locks: the progress guard is not dropped before the
\* records lock is requested
cancel_queue_locks_nested ==
    {<<Acq("prog", "W"), Rel("prog")>>,
     <<Acq("prog", "W"), Acq("rec", "W"), Rel("rec"), Rel("prog")>>}

\* cancel_queue: the progress write lock; on 404 and 409 it is released by
\* the return, otherwise drop(progress_map) before the records write lock
cancel_queue_locks ==
    {<<Acq("prog", "W"), Rel("prog")>>,
     <<Acq("prog", "W"), Rel("prog"), Acq("rec", "W"), Rel("rec")>>}

\* list_queues and one poll of get_progress: the progress read lock
list_queues_locks == {<<Acq("prog", "R"), Rel("prog")>>}
get_progress_locks == {<<Acq("prog", "R"), Rel("prog")>>}

\* the background writers: update_progress and the cleanup of the job, the
\* uploader's insert; a variant task reads under the read lock, then inserts
\* under the write lock
job_locks ==
    {update_progress_locks,
     <<Acq("prog", "R"), Rel("prog"), Acq("prog", "W"), Rel("prog")>>}

LockPaths(op) ==
    CASE op = "upload_chunk" -> upload_chunk_locks
      [] op = "finalize" -> finalize_locks
      [] op = "cancel_queue" -> cancel_queue_locks
      [] op = "list_queues" -> list_queues_locks
      [] op = "get_progress" -> get_progress_locks
      [] op = "job" -> job_locks

LockOps == {"upload_chunk", "finalize", "cancel_queue", "list_queues", "get_progress", "job"}

\* the instruction task t is at
Instr(t) == sync.th[t].path[sync.th[t].pc]

\* the task moves past its instruction; at the end of its path it returns
Advance(th, t) ==
    IF th[t].pc = Len(th[t].path) THEN [th EXCEPT ![t] = IdleTask]
    ELSE [th EXCEPT ![t].pc = @ + 1, ![t].waiting = FALSE]

\* the lock can be given in mode m: a writer needs it free, a reader needs
\* it free of a writer
Grantable(lock, m) ==
    IF m = "W" THEN lock.w = 0 /\ lock.r = {} ELSE lock.w = 0

\* a handler or a background writer starts, on one of its paths
LockCall(t, op, path) ==
    /\ sync.th[t] = IdleTask
    /\ path \in LockPaths(op)
    /\ sync' = [sync EXCEPT !.th[t] = [path |-> path, pc |-> 1, waiting |-> FALSE]]
    /\ UNCHANGED beside_locks

\* .read().await / .write().await is called: the request joins the queue
LockRequest(t) ==
    /\ sync.th[t] # IdleTask /\ ~sync.th[t].waiting
    /\ Instr(t).a = "acq"
    /\ sync' = [sync EXCEPT !.th[t].waiting = TRUE,
                            ![Instr(t).l].q = Append(@, [t |-> t, m |-> Instr(t).m])]
    /\ UNCHANGED beside_locks

\* the oldest request of a lock is granted as soon as the lock allows it
LockGrant(t) ==
    /\ sync.th[t] # IdleTask /\ sync.th[t].waiting
    /\ LET l == Instr(t).l
           lock == sync[l]
       IN
       /\ lock.q # <<>> /\ Head(lock.q).t = t
       /\ Grantable(lock, Instr(t).m)
       /\ sync' = [sync EXCEPT
              ![l] = [w |-> IF Instr(t).m = "W" THEN t ELSE lock.w,
                      r |-> IF Instr(t).m = "R" THEN lock.r \cup {t} ELSE lock.r,
                      q |-> Tail(lock.q)],
              !.th = Advance(sync.th, t)]
    /\ UNCHANGED beside_locks

\* the guard is dropped
LockRelease(t) ==
    /\ sync.th[t] # IdleTask
    /\ Instr(t).a = "rel"
    /\ LET l == Instr(t).l IN
       sync' = [sync EXCEPT
              ![l].w = IF @ = t THEN 0 ELSE @,
              ![l].r = @ \ {t},
              !.th = Advance(sync.th, t)]
    /\ UNCHANGED beside_locks

\* ------------------------------------------------------------------ subtitles of a job

\* the codec names ffprobe reports for a subtitle stream
SubtitleCodecs == {"ass", "subrip", "mov_text"}

\* match sub.codec_name: "ass" | "ssa" => "ass", "subrip" | "srt" => "srt",
\* anything else "ass"
SubtitleExt(codec_name) ==
    IF codec_name \in {"ass", "ssa"} THEN "ass"
    ELSE IF codec_name \in {"subrip", "srt"} THEN "srt"
    ELSE "ass"

\* format!("track_{}.{}", idx, ext)
sub_filename(idx, ext) == "track_" \o ToString(idx) \o "." \o ext

\* format!("{}/subtitles/track_{}.{}", output_id, idx, ext)
storage_key(output_id, idx, ext) ==
    output_id \o "/subtitles/track_" \o ToString(idx) \o "." \o ext

\* the key upload_hls_to_r2 gives a file of the subtitles directory: the
\* prefix format!("{}/", output_id), then the path below the HLS directory
SubtitleObjectKey(output_id, name) ==
    LET prefix == output_id \o "/"
        sub_prefix == prefix \o "subtitles" \o "/"
    IN sub_prefix \o name

\* get_subtitle_streams(..).await.unwrap_or_default(): the probed streams in
\* their order, or none when the probe fails
SubtitlesProbe(streams, probed) ==
    /\ call = NoCall
    /\ call' = [fn |-> "subtitles", output_id |-> "o",
                subtitle_streams |-> IF probed THEN streams ELSE <<>>,
                pc |-> "extract", idx |-> 0, files |-> {}, put |-> {}, rows |-> {}]
    /\ UNCHANGED pipeline_vars
    /\ UNCHANGED beside_calls

\* one turn of the extraction loop: extract_subtitle writes track_idx.ext;
\* when FFmpeg fails the error is logged and the loop goes on, with the file
\* missing or left behind
SubtitleExtract(outcome) ==
    /\ call.fn = "subtitles" /\ call.pc = "extract"
    /\ call.idx < Len(call.subtitle_streams)
    /\ LET ext == SubtitleExt(call.subtitle_streams[call.idx + 1])
           name == sub_filename(call.idx, ext)
       IN call' = [call EXCEPT !.idx = @ + 1,
                       !.files = IF outcome = "failed_no_file" THEN @ ELSE @ \cup {name}]
    /\ UNCHANGED pipeline_vars
    /\ UNCHANGED beside_calls

\* upload_hls_to_r2(..).await?: every file of the directory is PUT under its
\* key; an error ends the job before any row is saved
SubtitlesUpload(ok) ==
    /\ call.fn = "subtitles" /\ call.pc = "extract"
    /\ call.idx = Len(call.subtitle_streams)
    /\ call' = [call EXCEPT !.pc = IF ok THEN "save" ELSE "failed",
                    !.idx = 0,
                    !.put = IF ok
                            THEN {SubtitleObjectKey(call.output_id, name) : name \in call.files}
                            ELSE {}]
    /\ UNCHANGED pipeline_vars
    /\ UNCHANGED beside_calls

\* save_subtitle: the store inserts the row or answers with an error
save_subtitle(rows, video_id, track_index, codec, key, stored) ==
    IF stored
    THEN rows \cup {[video_id |-> video_id, track_index |-> track_index,
                     codec |-> codec, storage_key |-> key]}
    ELSE rows

\* one turn of the loop that saves the subtitle metadata: the row of every
\* probed stream, under its position; an error is logged
SubtitleSave(stored) ==
    /\ call.fn = "subtitles" /\ call.pc = "save"
    /\ call.idx < Len(call.subtitle_streams)
    /\ LET codec == call.subtitle_streams[call.idx + 1]
           key == storage_key(call.output_id, call.idx, SubtitleExt(codec))
       IN call' = [call EXCEPT !.idx = @ + 1,
                       !.rows = save_subtitle(@, call.output_id, call.idx, codec,
                                              key, stored)]
    /\ UNCHANGED pipeline_vars
    /\ UNCHANGED beside_calls

\* the job is over: its result is stored and the next job may start
SubtitlesReturn ==
    /\ call.fn = "subtitles"
    /\ \/ call.pc = "failed"
       \/ call.pc = "save" /\ call.idx = Len(call.subtitle_streams)
    /\ call' = NoCall
    /\ UNCHANGED pipeline_vars
    /\ UNCHANGED beside_calls

\* ------------------------------------------------------------------ specifications

ChunkIndexes == 0..MaxChunks

\* cancel_queue
CancelNext ==
    \/ \E s \in Slots, u \in UploadIds : CancelCheck(s, u)
    \/ \E s \in Slots : CancelCleanup(s)

\* upload_chunk after its first step
ChunkNext ==
    \/ \E s \in Slots : ChunkWrite(s)
    \/ \E s \in Slots : ChunkMark(s)
    \/ \E s \in Slots : ChunkCount(s)
    \/ \E s \in Slots : ChunkProgress(s)

\* finalize_chunked_upload
FinalizeNext ==
    \/ \E s \in Slots, u \in UploadIds, n \in VideoNames : FinalizeTake(s, u, n)
    \/ \E s \in Slots : FinalizeAssembling(s)
    \/ \E s \in Slots : FinalizeAssemble(s)
    \/ \E s \in Slots : FinalizeCleanup(s)
    \/ \E s \in Slots : FinalizeQueue(s)

\* upload_video
UploadVideoNext ==
    \/ \E s \in Slots, u \in UploadIds : UploadVideoInit(s, u)
    \/ \E s \in Slots : UploadVideoChunk(s)
    \/ \E s \in Slots, c \in {"400", "500"} : UploadVideoReject(s, c)
    \/ \E s \in Slots, n \in VideoNames : UploadVideoQueue(s, n)

\* encode_to_hls: the spawn loop, the variant tasks, the thumbnail task, the join
EncodeNext ==
    \/ \E j \in JobIds : EncodeSpawn(j)
    \/ \E j \in JobIds : \E k \in Tasks(j) : TaskAcquire(j, k)
    \/ \E j \in JobIds : \E k \in Tasks(j) : TaskRead(j, k)
    \/ \E j \in JobIds : \E k \in Tasks(j) : TaskStart(j, k)
    \/ \E j \in JobIds : \E k \in Tasks(j), ok \in BOOLEAN : FfmpegExit(j, k, ok)
    \/ \E j \in JobIds : \E k \in Tasks(j) : TaskFinish(j, k)
    \/ \E j \in JobIds : \E k \in Tasks(j) : TaskBail(j, k)
    \/ \E j \in JobIds, o \in {"ok", "err"} : ThumbExit(j, o)
    \/ \E j \in JobIds : EncodeJoin(j)
    \/ \E j \in JobIds, ok \in BOOLEAN : MasterPlaylist(j, ok)

\* the background task around encode_to_hls
JobNext ==
    \/ \E j \in JobIds : JobProbeFail(j)
    \/ \E j \in JobIds, h \in Heights : JobProbe(j, h)
    \/ \E j \in JobIds : JobExtractFail(j)
    \/ \E j \in JobIds : UploadStart(j)
    \/ \E j \in JobIds, ok \in BOOLEAN, keep \in BOOLEAN : UploadPut(j, ok, keep)
    \/ \E j \in JobIds : UploadDone(j)
    \/ \E j \in JobIds, ok \in BOOLEAN : SaveVideo(j, ok)
    \/ \E j \in JobIds : JobResult(j)
    \/ \E j \in JobIds : JobCleanup(j)

\* Spec: the whole pipeline. Every handler and the background job run
\* concurrently; the chunk requests are those of a one-chunk upload "U1".
Next ==
    \/ \E s \in Slots : ChunkInit(s, "U1", 0, 1, "a.mp4", <<"A">>)
    \/ ChunkNext
    \/ FinalizeNext
    \/ CancelNext
    \/ UploadVideoNext
    \/ JobNext
    \/ EncodeNext

Spec == Init /\ [][Next]_vars

\* SpecChunk: the reassembler under arbitrary chunk requests: any index and
\* any declared total up to MaxChunks, any file name.
NextChunk ==
    \/ \E s \in Slots, i \in ChunkIndexes, t \in ChunkIndexes, f \in FileNames :
          ChunkInit(s, "U1", i, t, f, <<"A">>)
    \/ ChunkNext
    \/ FinalizeNext
    \/ CancelNext

SpecChunk == Init /\ [][NextChunk]_vars

\* SpecReassembly: the reassembler under the requests of a client that
\* uploads one file of up to MaxChunks chunks: every index below the
\* declared total, in any order and any number of times, with any payload.
NextReassembly ==
    \/ \E s \in Slots, t \in 1..MaxChunks, d \in Payloads :
          \E i \in 0..(t - 1) : ChunkInit(s, "U1", i, t, "a.mp4", d)
    \/ ChunkNext
    \/ FinalizeNext
    \/ CancelNext

SpecReassembly == Init /\ [][NextReassembly]_vars

\* SpecEncode: MaxJobs background jobs have been queued and probed and are
\* about to call encode_to_hls, each with a source height of its own.
InitEncode ==
    /\ ServicesIdle
    /\ chunked_uploads = <<>>
    /\ dirs = [u \in UploadIds |-> NoDir]
    /\ req = [s \in Slots |-> Idle]
    /\ resp = NoResp
    /\ permits = SemaphoreCapacity
    /\ started = 0
    /\ \E hs \in [JobIds -> Heights], us \in [JobIds -> UploadIds] :
          /\ jobs = [j \in JobIds |->
                 [NewJob(us[j], "v", <<>>) EXCEPT !.pc = "encode", !.height = hs[j]]]
          /\ progress = [u \in {us[j] : j \in JobIds} |->
                 LET last == CHOOSE j \in JobIds :
                         us[j] = u /\ \A i \in JobIds : us[i] = u => i <= j IN
                 ProgressUpdate("FFmpeg processing", 0,
                                Len(get_variants_for_height(hs[last])), 0,
                                "processing", None, "v", 1, NoResult)]

SpecEncode == InitEncode /\ [][EncodeNext]_vars

\* SpecJob: one background job from its spawn by upload_video to the removal
\* of its entry, with no request in flight; the job task may panic.
InitJob ==
    /\ ServicesIdle
    /\ chunked_uploads = <<>>
    /\ dirs = [u \in UploadIds |-> NoDir]
    /\ req = [s \in Slots |-> Idle]
    /\ resp = [op |-> "upload_video", uid |-> "U1", code |-> "200"]
    /\ permits = SemaphoreCapacity
    /\ started = 1
    /\ jobs = [j \in JobIds |-> IF j = 1 THEN NewJob("U1", "v", <<>>) ELSE IdleJob]
    /\ progress = ("U1" :> ProgressUpdate("Queued for processing", 0, 1, 0, "processing",
                                          None, "v", 1, NoResult))

NextJob ==
    \/ JobNext
    \/ EncodeNext
    \/ \E j \in JobIds : JobPanic(j)

SpecJob == InitJob /\ [][NextJob]_vars

\* the token functions alone: tokens are issued and verified for every
\* choice of inputs while the clock moves over ClockValues
NextToken ==
    \/ \E t \in ClockValues : ClockSet(t)
    \/ \E v \in VideoIds, k \in Secrets, ip \in ClientIps, ua \in UserAgents :
           IssueToken(v, k, ip, ua)
    \/ \E v \in VideoIds, k \in Secrets, ip \in ClientIps, ua \in UserAgents :
           CheckToken(v, k, ip, ua)

SpecToken == Init /\ [][NextToken]_vars

\* the clock readings around the end of a token issued at 0
GateClock == {0, TokenValidity - 1, TokenValidity, TokenValidity + 1}

PeerAddrs == {<<"9">>, <<"8">>}

ForwardedFor ==
    {Absent, Hdr(<<>>), Hdr(<<"1">>), Hdr(<<" ", "1", " ", ",", "2">>),
     Hdr(<<",", "1">>), Hdr(<<"0x80">>)}

UserAgentHeaders == {Absent, Hdr(<<"2">>), Hdr(<<"0x80">>)}

HlsFiles == {<<"i", ".m3u8">>, <<"s", ".ts">>, <<"t", ".jpg">>}

\* the Cookie header a browser sends after the player page
JarCookie(token) == Hdr(<<[name |-> "sid", value |-> <<>>], [name |-> "token", value |-> token]>>)

\* a browser opens the player page and then requests the files of the same
\* video over the same connection, with the same headers and the cookie it
\* was given
NextPlayer ==
    \/ \E t \in GateClock : ClockSet(t)
    \/ \E id \in VideoIds, addr \in PeerAddrs, xff \in ForwardedFor,
          ua \in UserAgentHeaders : GetPlayer(id, addr, xff, ua)
    \/ /\ player # NoPlayer
       /\ \E file \in HlsFiles, found \in BOOLEAN :
              GetHlsFile(player.id, file, player.addr, player.xff, player.ua,
                         JarCookie(player.token), found)

SpecPlayer == Init /\ [][NextPlayer]_vars

\* any client requests any file: with no cookie, with a cookie that is not a
\* token, or with the token of the last player page
GateForwardedFor == {Absent, Hdr(<<"1">>)}

GateUserAgents == {Absent, Hdr(<<"2">>)}

GateCookies ==
    {Absent, Hdr(<<[name |-> "token", value |-> Text(<<"x">>)]>>)}
        \cup (IF player = NoPlayer THEN {} ELSE {JarCookie(player.token)})

NextGate ==
    \/ \E t \in GateClock : ClockSet(t)
    \/ \E id \in VideoIds, xff \in GateForwardedFor :
           GetPlayer(id, <<"9">>, xff, Absent)
    \/ \E id \in VideoIds, file \in HlsFiles, xff \in GateForwardedFor,
          ua \in GateUserAgents, cookie \in GateCookies, found \in BOOLEAN :
           GetHlsFile(id, file, <<"9">>, xff, ua, cookie, found)

SpecGate == Init /\ [][NextGate]_vars

NextPresence ==
    \/ \E t \in Instants : InstantAdvance(t)
    \/ \E v \in PresenceVideos, ip \in ViewerIps : Heartbeat(v, ip, UnknownAgent)
    \/ ScanWake
    \/ ScanEvict

SpecPresence == Init /\ [][NextPresence]_vars

\* list_queues over the registries of up to three uploads queued at any
\* times, before and after updates of their entries
InitQueues ==
    /\ chunked_uploads = <<>>
    /\ dirs = [u \in UploadIds |-> NoDir]
    /\ req = [s \in Slots |-> Idle]
    /\ resp = NoResp
    /\ jobs = [j \in JobIds |-> IdleJob]
    /\ permits = SemaphoreCapacity
    /\ started = 0
    /\ ServicesIdle
    /\ \E ids \in SUBSET QueueIds : \E at \in [ids -> 1..MaxCreated] :
           progress = [u \in ids |->
               ProgressUpdate("Queued for processing", 0, 1, 0, "processing", None,
                              "v", at[u], NoResult)]

NextQueues ==
    \/ \E order \in Orders(DOMAIN progress) : ListQueues(order)
    \/ \E u \in QueueIds : QueueUpdate(u, "FFmpeg processing", "processing")
    \/ \E u \in QueueIds : QueueUpdate(u, "Completed", "completed")

SpecQueues == InitQueues /\ [][NextQueues]_vars

\* the start of the job for every source height: the probes, then
\* encode_to_hls up to its spawn loop
NextVariants ==
    \/ \E h \in SourceHeights : JobProbe(1, h)
    \/ EncodeSpawn(1)

SpecVariants == InitJob /\ [][NextVariants]_vars

\* the object key of the file at path p below the output root
RECURSIVE ObjectKey(_)
ObjectKey(p) ==
    IF Len(p) = 1 THEN OutputPrefix \o p
    ELSE ObjectKey(SubSeq(p, 1, Len(p) - 1)) \o <<"/", p[Len(p)]>>

\* upload_hls_to_r2 on every output directory, with every outcome of every
\* file's transfer in every order of completion
NextUploader ==
    \/ \E tree \in SUBSET HlsPaths, listed \in BOOLEAN : UploaderCall(tree, listed)
    \/ \E p \in HlsPaths, outcome \in {"ok", "read", "upload"} :
           UploaderPut(ObjectKey(p), outcome)
    \/ UploaderReturn

SpecUploader == Init /\ [][NextUploader]_vars

\* a progress stream beside the registry's changes: the entry appears, is
\* updated, reaches its result and is removed at any time
NextStream ==
    \/ \E token \in TokenParams : ProgressOpen("U1", token)
    \/ ProgressPoll
    \/ \E late \in 0..MaxLate : ProgressSleep(late)
    \/ ProgressClose
    \/ QueueUpdate("U1", "FFmpeg processing", "processing")
    \/ \E status \in {"completed", "failed"} : QueueUpdate("U1", "Done", status)
    \/ EntryQueued("U1")
    \/ EntryExpire("U1")

SpecStream == Init /\ [][NextStream]_vars

\* the chapters of one video: every list the probe may return, every answer
\* of the store
JsonChapters == [start_time : JsonTimes, end_time : JsonTimes]

NextChapters ==
    \/ \E n \in 0..MaxChapters : \E arr \in [1..n -> JsonChapters], probed \in BOOLEAN :
           ChaptersProbe(arr, probed)
    \/ \E stored \in BOOLEAN : ChapterSave(stored)

SpecChapters == Init /\ [][NextChapters]_vars

\* SpecFinalize: finalize requests, repeated and concurrent, for the one
\* reassembly record of "U1", whose chunks have all been received; no chunk
\* request creates a record again
InitFinalize ==
    /\ ServicesIdle
    /\ req = [s \in Slots |-> Idle]
    /\ resp = NoResp
    /\ jobs = [j \in JobIds |-> IdleJob]
    /\ permits = SemaphoreCapacity
    /\ started = 0
    /\ \E t \in 1..MaxChunks, d \in [0..(MaxChunks - 1) -> Payloads] :
          /\ chunked_uploads = ("U1" :> [file_name |-> "a.mp4", total_chunks |-> t,
                                         received_chunks |-> [k \in 1..t |-> TRUE]])
          /\ dirs = [u \in UploadIds |->
                        IF u = "U1"
                        THEN [exists |-> TRUE, files |-> [i \in 0..(t - 1) |-> d[i]]]
                        ELSE NoDir]
          /\ progress = ("U1" :> ProgressUpdate("Receiving chunks", t, t, 100,
                                                "processing", None, "a_mp4", 1, NoResult))

NextFinalize ==
    \/ FinalizeNext
    \/ NextJob

SpecFinalize == InitFinalize /\ [][NextFinalize]_vars

\* SpecLive: one spawned job beside cancel requests; every subprocess and
\* every call returns, and the job and the tasks it spawned are scheduled
\* fairly
NextLive ==
    \/ JobNext
    \/ EncodeNext
    \/ CancelNext

SpecLive == InitJob /\ [][NextLive]_vars /\ WF_vars(JobNext) /\ WF_vars(EncodeNext)

\* SpecLocks: the handlers and the background writers take the two locks in
\* any interleaving; a task that can move is scheduled
NextLocks ==
    \/ \E t \in LockTasks, op \in LockOps : \E path \in LockPaths(op) : LockCall(t, op, path)
    \/ \E t \in LockTasks : LockRequest(t)
    \/ \E t \in LockTasks : LockGrant(t)
    \/ \E t \in LockTasks : LockRelease(t)

SpecLocks ==
    /\ Init /\ [][NextLocks]_vars
    /\ \A t \in LockTasks : WF_vars(LockRequest(t) \/ LockGrant(t) \/ LockRelease(t))

\* SpecSubtitles: the subtitle part of a job: probe, extraction, upload and
\* the rows, with every outcome of FFmpeg, the object store and the database
NextSubtitles ==
    \/ \E n \in 0..MaxSubtitles : \E streams \in [1..n -> SubtitleCodecs],
          probed \in BOOLEAN : SubtitlesProbe(streams, probed)
    \/ \E outcome \in {"ok", "failed_no_file", "failed_file_left"} : SubtitleExtract(outcome)
    \/ \E ok \in BOOLEAN : SubtitlesUpload(ok)
    \/ \E stored \in BOOLEAN : SubtitleSave(stored)
    \/ SubtitlesReturn

SpecSubtitles == Init /\ [][NextSubtitles]_vars

\* ------------------------------------------------------------------ claims

\* the handler in slot s takes a step
Steps(s) == req'[s] # req[s]

\* a handler of `op` arrives and answers `code` on its first step
Answers(op, code) ==
    /\ started' = started + 1
    /\ req' = req
    /\ resp'.op = op /\ resp'.code = code

\* a handler of `op` arrives in slot s and stays in flight
Arrives(s, op) == req[s] = Idle /\ req'[s].op = op

\* the handler of `op` in slot s returns
Returns(s, op) == req[s].op = op /\ req'[s] = Idle

Has(map, u) == u \in DOMAIN map

\* C1: once the registry holds an entry with status completed or failed for
\* an uploadId, no step writes another entry for it: the entry stays as it
\* is until it is removed.
C1_TerminalAbsorbing ==
    [][\A u \in UploadIds :
          (Has(progress, u) /\ progress[u].status \in {"completed", "failed"})
              => (~Has(progress', u) \/ progress'[u] = progress[u])]_vars

\* C2: from the first write of an entry until its removal, every write
\* leaves the entry's created_at as it was.
C2_CreatedAtWriteOnce ==
    [][\A u \in UploadIds :
          (Has(progress, u) /\ Has(progress', u))
              => progress'[u].created_at = progress[u].created_at]_vars

\* the variant tasks whose FFmpeg subprocess has been launched and has not exited
RunningEncodes ==
    {jk \in JobIds \X (1..4) :
        jk[2] \in Tasks(jk[1]) /\ jobs[jk[1]].tasks[jk[2]].pc = "running"}

\* the variant tasks between semaphore.acquire() and the drop of _permit
PermitHolders ==
    {jk \in JobIds \X (1..4) :
        /\ jk[2] \in Tasks(jk[1])
        /\ jobs[jk[1]].tasks[jk[2]].pc \in
               {"acquired", "read", "running", "exited_ok", "exited_err"}}

\* C3: over all jobs, the FFmpeg variant subprocesses running at one time
\* never exceed the semaphore's capacity; a subprocess runs only while its
\* task holds a permit, and every permit taken from the semaphore is held by
\* a task that has not yet seen its subprocess exit and returned.
C3_TranscodeCap ==
    /\ Cardinality(RunningEncodes) <= SemaphoreCapacity
    /\ permits >= 0
    /\ permits + Cardinality(PermitHolders) = SemaphoreCapacity

\* a variant of one job is encoding with the last permit while a variant of
\* another job waits for one
C3_Witness ==
    /\ permits = 0
    /\ \E j1 \in JobIds, j2 \in JobIds :
          /\ j1 # j2
          /\ \E k \in Tasks(j1) : jobs[j1].tasks[k].pc = "running"
          /\ \E k \in Tasks(j2) : jobs[j2].tasks[k].pc = "waiting"

\* the stages the claim allows a cancel in
CancellableStages == {"Initializing upload", "Queued for processing", "Receiving chunks"}

EarlyEntry(p) == p.status = "initializing" \/ p.stage \in CancellableStages

\* C4: a cancel goes ahead only on an entry whose status is initializing or
\* whose stage is one of the three early stages; on any other entry it
\* answers 409 and leaves the registry and the reassembly records as they
\* are; with no entry it answers 404 and nothing changes.
C4_CancelOnlyEarly ==
    [][/\ \A s \in Slots :
             Arrives(s, "cancel_queue") =>
                 /\ Has(progress, req'[s].uid)
                 /\ EarlyEntry(progress[req'[s].uid])
       /\ Answers("cancel_queue", "409") =>
             /\ Has(progress, resp'.uid)
             /\ ~EarlyEntry(progress[resp'.uid])
             /\ UNCHANGED <<progress, chunked_uploads, dirs, jobs>>
       /\ Answers("cancel_queue", "404") =>
             /\ ~Has(progress, resp'.uid)
             /\ UNCHANGED <<progress, chunked_uploads, dirs, jobs>>
       /\ (started' = started + 1 /\ req' = req /\ resp'.op = "cancel_queue")
             => resp'.code \in {"404", "409"}]_vars

\* a cancel was refused with 409 while the job was encoding
C4_Witness ==
    /\ resp.op = "cancel_queue" /\ resp.code = "409"
    /\ Has(progress, resp.uid)
    /\ progress[resp.uid].stage = "FFmpeg processing"

AllBitsTrue(received) == \A k \in DOMAIN received : received[k] = TRUE

\* C6: a finalize goes past its check, assembles a file and spawns a job
\* only when every bit of the record's received vector is true; with a bit
\* false it answers 400, no file is assembled and no job is spawned.
C6_FinalizeNeedsAllChunks ==
    [][/\ \A s \in Slots :
             /\ Arrives(s, "finalize") =>
                   /\ Has(chunked_uploads, req'[s].uid)
                   /\ AllBitsTrue(chunked_uploads[req'[s].uid].received_chunks)
             /\ (req'[s].op = "finalize") => AllBitsTrue(req'[s].upload.received_chunks)
       /\ Answers("finalize", "400") =>
             /\ Has(chunked_uploads, resp'.uid)
             /\ ~AllBitsTrue(chunked_uploads[resp'.uid].received_chunks)
             /\ jobs' = jobs
       /\ (jobs' # jobs /\ resp'.op = "finalize") =>
             \E s \in Slots : /\ Returns(s, "finalize")
                              /\ resp'.code = "200"
                              /\ AllBitsTrue(req[s].upload.received_chunks)
       /\ \A u \in UploadIds :
             (started' = started + 1 /\ Has(chunked_uploads, u) /\ ~Has(chunked_uploads', u)
              /\ ~AllBitsTrue(chunked_uploads[u].received_chunks) /\ resp'.op = "finalize")
                 => (req' = req /\ resp'.code = "400")]_vars

\* a finalize of an upload of MaxChunks chunks returned 200 and its job was spawned
C6_Witness ==
    /\ resp = [op |-> "finalize", uid |-> "U1", code |-> "200"]
    /\ jobs[1] # IdleJob
    /\ Len(jobs[1].input) >= MaxChunks

\* the bytes of chunks 0..n-1 one after the other: the sequence whose part
\* at the offset of chunk i is chunk i
RECURSIVE OffsetOf(_, _)
OffsetOf(files, i) == IF i = 0 THEN 0 ELSE OffsetOf(files, i - 1) + Len(files[i - 1])

IsConcatenation(file, files, n) ==
    /\ Len(file) = OffsetOf(files, n)
    /\ \A i \in 0..(n - 1) :
          SubSeq(file, OffsetOf(files, i) + 1, OffsetOf(files, i + 1)) = files[i]

\* C7: whatever the order the chunks arrived in, the file a finalize
\* assembles is the concatenation, in ascending index order, of the bytes
\* last written for each of the chunks 0..n-1, and that file is the input of
\* the job it spawns.
C7_ReassemblyOrderIndependent ==
    [][\A s \in Slots :
          /\ (req[s].op = "finalize" /\ req[s].pc = "assemble" /\ req'[s].op = "finalize"
              /\ req'[s].pc = "cleanup") =>
                IsConcatenation(req'[s].final, dirs[req[s].uid].files,
                                req[s].upload.total_chunks)
          /\ (Returns(s, "finalize") /\ resp'.code = "200") => jobs'[1].input = req[s].final]_vars

\* the job's input is chunk 0 = "B","C" followed by chunk 1 = "A"
C7_Witness ==
    /\ jobs[1] # IdleJob
    /\ jobs[1].input = <<"B", "C", "A">>

\* the chunk request in slot s carries bytes that are already on disk at its
\* index, with the bit of that index set
Resent(s) ==
    /\ req[s].op = "upload_chunk"
    /\ Has(chunked_uploads, req[s].uid)
    /\ req[s].chunk_index < Len(chunked_uploads[req[s].uid].received_chunks)
    /\ chunked_uploads[req[s].uid].received_chunks[req[s].chunk_index + 1]
    /\ dirs[req[s].uid].exists
    /\ req[s].chunk_index \in DOMAIN dirs[req[s].uid].files
    /\ dirs[req[s].uid].files[req[s].chunk_index] = req[s].data

\* C8: a chunk request that carries the bytes already received at its index
\* leaves the received vector (and with it the received count) and the
\* chunk files as they are, so the file a finalize assembles is the same;
\* it answers 200.
C8_ChunkIdempotent ==
    [][\A s \in Slots :
          (Resent(s) /\ Steps(s)) =>
              /\ chunked_uploads' = chunked_uploads
              /\ dirs' = dirs
              /\ Returns(s, "upload_chunk") =>
                     resp' = [op |-> "upload_chunk", uid |-> req[s].uid, code |-> "200"]]_vars

\* two requests with the same bytes for the same index have both written and
\* marked their chunk
C8_Witness ==
    \E s \in Slots, r \in Slots :
        /\ s # r
        /\ Resent(s) /\ Resent(r)
        /\ req[s].pc = "progress" /\ req[r].pc = "progress"
        /\ req[s].chunk_index = req[r].chunk_index
        /\ req[s].data = req[r].data

\* the chunk request in slot s has an index outside the record's declared total
OutOfRange(s) ==
    /\ req[s].op = "upload_chunk"
    /\ Has(chunked_uploads, req[s].uid)
    /\ req[s].chunk_index >= chunked_uploads[req[s].uid].total_chunks

\* C9: a chunk request whose index is not below the total declared when the
\* record was created is answered with a protocol violation (400) and leaves
\* the received vector, the chunk files and the progress entry as they are.
C9_OutOfRangeRejected ==
    [][\A s \in Slots :
          (OutOfRange(s) /\ Steps(s)) =>
              /\ chunked_uploads' = chunked_uploads
              /\ dirs' = dirs
              /\ progress' = progress
              /\ Returns(s, "upload_chunk") => resp'.code = "400"]_vars

\* the chunk request in slot s names another file than the record does
NameMismatch(s) ==
    /\ req[s].op = "upload_chunk"
    /\ Has(chunked_uploads, req[s].uid)
    /\ req[s].file_name # chunked_uploads[req[s].uid].file_name

\* C10: a chunk request whose file name differs from the one the record was
\* created with is answered with a protocol violation (400); no chunk file
\* is written, no bit is marked and the progress entry is not updated.
C10_NameMismatchRejected ==
    [][\A s \in Slots :
          (NameMismatch(s) /\ Steps(s)) =>
              /\ chunked_uploads' = chunked_uploads
              /\ dirs' = dirs
              /\ progress' = progress
              /\ Returns(s, "upload_chunk") => resp'.code = "400"]_vars

\* C11: while the stage label of an entry stays the same, the percentage
\* stored for it never decreases, whatever the interleaving of the writers.
C11_PercentageMonotoneInStage ==
    [][\A u \in UploadIds :
          (Has(progress, u) /\ Has(progress', u)
           /\ progress'[u].stage = progress[u].stage)
              => progress'[u].percentage >= progress[u].percentage]_vars

\* C12: every registry entry has percentage <= 100 and current_chunk <=
\* total_chunks, also when chunk requests of one upload declare different
\* totals.
C12_PercentageBounded ==
    \A u \in DOMAIN progress :
        /\ progress[u].percentage <= 100
        /\ progress[u].current_chunk <= progress[u].total_chunks

\* the place of a stage in the pipeline order
StageRank(stage) ==
    CASE stage \in {"Initializing upload", "Receiving chunks", "Uploading to server",
                    "Assembling file", "Queued for processing"} -> 1
      [] stage = "FFmpeg processing" -> 2
      [] stage = "Upload to R2" -> 3
      [] stage \in {"Completed", "Failed", "Cancelled"} -> 4

\* C13: the stage labels stored for an uploadId never go backwards in the
\* order receive, "FFmpeg processing", "Upload to R2", terminal.
C13_StagesInPipelineOrder ==
    [][\A u \in UploadIds :
          (Has(progress, u) /\ Has(progress', u))
              => StageRank(progress'[u].stage) >= StageRank(progress[u].stage)]_vars

\* a step stores an entry for u that differs from the one stored
Writes(u) == Has(progress', u) /\ (~Has(progress, u) \/ progress'[u] # progress[u])

\* the job's result has been decided as Err
\* C14: a job whose probe, transcode, upload or save_video step returned an
\* error stores one entry with stage "Failed", status failed and the error
\* string, and takes no later pipeline step; and a terminal entry of an
\* uploadId is never followed by another terminal entry.
C14_OneTerminalWrite ==
    [][/\ \A j \in JobIds :
             (jobs[j].pc = "result_err" /\ jobs'[j].pc # "result_err") =>
                 /\ jobs'[j].pc = "sleeping"
                 /\ Has(progress', jobs[j].uid)
                 /\ progress'[jobs[j].uid].stage = "Failed"
                 /\ progress'[jobs[j].uid].status = "failed"
                 /\ progress'[jobs[j].uid].error = jobs[j].err
       /\ \A j \in JobIds :
             (jobs[j].pc = "sleeping" /\ jobs[j].err # None) =>
                 /\ jobs'[j].pc \in {"sleeping", "finished"}
                 /\ jobs'[j].uploaded = jobs[j].uploaded
                 /\ jobs'[j].master = jobs[j].master
       /\ \A u \in UploadIds :
             (Has(progress, u) /\ IsTerminal(progress[u]) /\ Writes(u))
                 => ~IsTerminal(progress'[u])]_vars

\* nothing of job j runs any more: every task it spawned has returned
JobQuiet(j) ==
    /\ \A k \in Tasks(j) : jobs[j].tasks[k].pc \in {"done_ok", "done_err"}
    /\ jobs[j].thumb # "running"

\* C15: when the job task has panicked or was aborted before it stored its
\* result, a failed entry is stored for its uploadId all the same: once
\* nothing of the job runs any more, its entry is not left in a status other
\* than failed.
C15_PanicStillFails ==
    \A j \in JobIds :
        (jobs[j].pc = "panicked" /\ JobQuiet(j) /\ Has(progress, jobs[j].uid))
            => progress[jobs[j].uid].status = "failed"

\* every handler has returned and every job has run to its end
Quiescent ==
    /\ \A s \in Slots : req[s] = Idle
    /\ \A j \in JobIds : jobs[j] = IdleJob \/ (jobs[j].pc = "finished" /\ JobQuiet(j))

\* C16: every entry that reaches status completed or failed, by a job's
\* result or by cancel_queue, is removed from the registry after its delay:
\* once every handler has returned and every job has run to its end, no
\* terminal entry is left.
C16_TerminalEntriesCleanedUp ==
    Quiescent => \A u \in DOMAIN progress : ~IsTerminal(progress[u])

\* the variants of job j whose FFmpeg subprocess has exited non-zero
NonZeroVariants(j) ==
    {k \in Tasks(j) : jobs[j].tasks[k].pc \in {"exited_err", "done_err"}}

\* job j is past encode_to_hls with Ok
PastEncode(j) ==
    jobs[j].pc \in {"master", "encoded", "uploading", "saving", "result_ok"}

\* C17: once the FFmpeg subprocess of a variant has exited non-zero, the
\* error encode_to_hls returns names a variant that exited non-zero; the
\* master playlist is not written, nothing is uploaded, save_video is not
\* reached, and the result the job stores is "Failed" with that error.
C17_FailingVariantFailsJob ==
    [][\A j \in JobIds :
          /\ (jobs'[j] # IdleJob /\ NonZeroVariants(j)' # {}) =>
                /\ ~PastEncode(j)'
                /\ ~jobs'[j].master
                /\ jobs'[j].uploaded = 0 /\ jobs'[j].puts = 0
          /\ (jobs[j].pc = "joining" /\ jobs'[j].pc = "result_err"
              /\ NonZeroVariants(j) # {}) =>
                \E k \in NonZeroVariants(j) : jobs'[j].err = VariantLabel(j, k)
          /\ (jobs[j].pc = "result_err" /\ jobs'[j].pc = "sleeping"
              /\ NonZeroVariants(j) # {}) =>
                /\ Has(progress', jobs[j].uid)
                /\ progress'[jobs[j].uid].status = "failed"
                /\ progress'[jobs[j].uid].error = jobs[j].err]_vars

\* C18: a failure of the thumbnail generation does not fail encode_to_hls:
\* the join returns an error only when a variant task has returned one, and
\* with every variant encoded it returns Ok whatever the thumbnail task did.
C18_ThumbnailNotFatal ==
    [][\A j \in JobIds :
          (jobs[j].pc = "joining" /\ jobs'[j].pc = "result_err")
              => FailedTasks(jobs[j].tasks) # {}]_vars

\* the last verification was made with the four inputs of the issuing call
SameInputs ==
    /\ verified.video_id = issued.video_id
    /\ verified.secret = issued.secret
    /\ verified.ip = issued.ip
    /\ verified.user_agent = issued.user_agent

\* C19: a token produced by generate_token at clock t verifies with the same
\* videoId, clientIP, userAgent and secret at every clock reading earlier
\* than t + 3600, however many verifications were made before.
C19_TokenRoundTrip ==
    (verified.call = "verify_token" /\ SameInputs
     /\ verified.at < issued.at + TokenValidity)
        => verified.answer

\* a token issued at clock 0 for an id that holds the separator is accepted
\* in the last second of its validity
C19_Witness ==
    /\ verified.call = "verify_token" /\ SameInputs
    /\ US \in {issued.video_id[i] : i \in DOMAIN issued.video_id}
    /\ issued.at = 0 /\ verified.at = TokenValidity - 1
    /\ verified.answer

\* C20: verify_token rejects a token whenever the videoId, the clientIP, the
\* userAgent or the secret it is given differs from the value the token was
\* issued for.
C20_TokenBinding ==
    (verified.call = "verify_token" /\ ~SameInputs) => ~verified.answer

\* within the validity, a token is presented from another address whose text
\* followed by the user agent reads the same as the issuing pair: rejected
C20_Witness ==
    /\ verified.call = "verify_token"
    /\ verified.at < issued.at + TokenValidity
    /\ verified.video_id = issued.video_id /\ verified.secret = issued.secret
    /\ verified.ip # issued.ip
    /\ verified.ip \o verified.user_agent = issued.ip \o issued.user_agent
    /\ ~verified.answer

\* the expiration written in a token
TokenExpiry(token) == ParseU64(Chars(Split(token)[1]))

\* C21: a token whose expiration is E is rejected at every clock reading
\* greater than E even when it is presented with the issuing inputs, and it
\* is still accepted at the reading E itself: it becomes invalid from the
\* second after E on (now > expiration, strictly).
C21_ExpiryBoundary ==
    verified.call = "verify_token" =>
        /\ verified.at > TokenExpiry(issued.token) => ~verified.answer
        /\ (SameInputs /\ verified.at = TokenExpiry(issued.token)) => verified.answer

\* a token presented with the issuing inputs one second after its expiration
\* is rejected
C21_Witness ==
    /\ verified.call = "verify_token" /\ SameInputs
    /\ verified.at = TokenExpiry(issued.token) + 1
    /\ ~verified.answer

\* the token of the request's cookie verifies against the request's id, its
\* resolved client address and its user agent at the time of the request
HlsTokenVerifies ==
    verify_token(hls.id, cookie_token(hls.cookie), ServerSecret,
                 hls_client_ip(hls.xff, hls.addr), hls_user_agent(hls.ua), hls.at)

\* C22: a request for a file ending in .m3u8 or .ts reads the object store
\* only if its token cookie verifies against (id, resolved client address,
\* User-Agent); with a missing, malformed, expired or mismatching token it
\* is answered 403 and the store is not read.
C22_SegmentGate ==
    (hls.call = "get_hls_file"
     /\ (EndsWith(hls.file, ".m3u8") \/ EndsWith(hls.file, ".ts"))) =>
        /\ hls.read => HlsTokenVerifies
        /\ ~HlsTokenVerifies => (hls.status = "403" /\ ~hls.read)

\* a segment is requested with the cookie of a player page for another video:
\* 403 and no read
C22_Witness ==
    /\ hls.call = "get_hls_file" /\ player # NoPlayer
    /\ EndsWith(hls.file, ".ts")
    /\ hls.cookie = JarCookie(player.token)
    /\ hls.id # player.id /\ hls.xff = player.xff /\ hls.ua = player.ua
    /\ hls.at < TokenExpiry(player.token)
    /\ hls.status = "403" /\ ~hls.read

\* C23: the token set by GET /player/{id} verifies on a GET
\* /hls/{id}/{file}.m3u8 that carries the same peer address, the same
\* X-Forwarded-For and User-Agent headers and the cookie, within the token's
\* lifetime: the request is not answered 403.
C23_SameClientResolution ==
    (/\ hls.call = "get_hls_file" /\ player # NoPlayer
     /\ EndsWith(hls.file, ".m3u8")
     /\ hls.id = player.id /\ hls.addr = player.addr
     /\ hls.xff = player.xff /\ hls.ua = player.ua
     /\ hls.cookie = JarCookie(player.token)
     /\ hls.at < TokenExpiry(player.token))
        => (hls.status # "403" /\ hls.read)

\* behind a proxy that sends a comma-separated X-Forwarded-For, the playlist
\* is served to the client of the player page
C23_Witness ==
    /\ hls.call = "get_hls_file" /\ player # NoPlayer
    /\ EndsWith(hls.file, ".m3u8")
    /\ hls.id = player.id /\ hls.addr = player.addr
    /\ hls.xff = player.xff /\ hls.ua = player.ua
    /\ hls.xff = Hdr(<<" ", "1", " ", ",", "2">>)
    /\ hls.cookie = JarCookie(player.token)
    /\ hls.status = "200"

\* the viewer keys of video v whose last heartbeat is less than 30 s old at `now`
LiveKeys(v, now) ==
    IF ~Has(active_viewers, v) THEN {}
    ELSE {k \in DOMAIN active_viewers[v] :
             now < active_viewers[v][k] + PresenceWindow}

\* the mapping emitted last
LastCounts(frames) == frames[Len(frames)]

\* C24: each scan of the presence map emits, for every video, the number of
\* distinct viewer keys whose last heartbeat is less than 30 seconds old; a
\* video with no such key, in particular one whose most recent heartbeat is
\* more than 30 seconds old, is absent from the emitted mapping.
C24_PresenceWindow ==
    [][(scan.pc = "timed" /\ scan'.pc = "sleeping") =>
          /\ DOMAIN LastCounts(counts') =
                 {v \in PresenceVideos : LiveKeys(v, scan.now) # {}}
          /\ \A v \in DOMAIN LastCounts(counts') :
                 LastCounts(counts')[v] = Cardinality(LiveKeys(v, scan.now))]_vars

\* one viewer of V was counted by a scan; the scan after its window has
\* passed emitted the empty mapping and left the presence map empty
C24_Witness ==
    /\ instant = PresenceWindow + 1
    /\ scan.pc = "sleeping"
    /\ counts = <<("V" :> 1), <<>>>>
    /\ active_viewers = <<>>

\* C25: list_queues returns every entry of the registry exactly once,
\* ordered by ascending created_at, whatever the order in which the entries
\* were inserted or are iterated and whatever updates they received.
C25_QueueListingFifo ==
    call.fn = "list_queues" =>
        LET items == call.result.items IN
        /\ Len(items) = Cardinality(DOMAIN call.registry)
        /\ \A u \in DOMAIN call.registry :
               \E i \in DOMAIN items :
                   items[i] = QueueItem(u, call.registry[u])
        /\ \A i, k \in DOMAIN items :
               i < k => items[i].created_at <= items[k].created_at

\* U1 created at 1, U2 at 3, U3 at 2, U3 updated since and iterated first:
\* listed as U1, U3, U2
C25_Witness ==
    /\ call.fn = "list_queues"
    /\ Len(call.order) = 3 /\ call.order[1] = "U3"
    /\ call.registry["U3"].stage = "FFmpeg processing"
    /\ [i \in 1..3 |-> call.result.items[i].upload_id] = <<"U1", "U3", "U2">>
    /\ [i \in 1..3 |-> call.result.items[i].created_at] = <<1, 2, 3>>

\* the fixed ladder
LadderLabels == <<"480p", "720p", "1080p", "1440p">>

LadderHeights == <<480, 720, 1080, 1440>>

\* the ladder's rungs that are not higher than h
Rungs(h) == {i \in DOMAIN LadderHeights : LadderHeights[i] <= h}

\* C26: for every source height h, get_variants_for_height(h) is the
\* sub-list of the ladder [480p, 720p, 1080p, 1440p] of the variants with
\* height <= h, in ladder order; when it is empty encode_to_hls fails with
\* no variant task and no thumbnail task spawned, otherwise it spawns one
\* task per selected variant.
C26_VariantSelection ==
    \A j \in JobIds :
        (jobs[j] # IdleJob /\ jobs[j].pc # "start") =>
            LET h == jobs[j].height
                sel == get_variants_for_height(h)
                rung(k) == CHOOSE i \in DOMAIN LadderLabels : LadderLabels[i] = sel[k].label
            IN
            /\ Len(sel) = Cardinality(Rungs(h))
            /\ \A k \in DOMAIN sel :
                   /\ sel[k].label \in {LadderLabels[i] : i \in Rungs(h)}
                   /\ sel[k].height = LadderHeights[rung(k)]
            /\ \A k, l \in DOMAIN sel : k < l => rung(k) < rung(l)
            /\ jobs[j].pc # "encode" =>
                   IF Rungs(h) = {}
                   THEN /\ jobs[j].pc = "result_err"
                        /\ jobs[j].tasks = <<>> /\ jobs[j].thumb = "none"
                   ELSE /\ jobs[j].pc = "joining"
                        /\ Len(jobs[j].tasks) = Cardinality(Rungs(h))

\* a source of height 479: encode_to_hls has failed with nothing spawned
C26_Witness ==
    /\ jobs[1] # IdleJob /\ jobs[1].height = 479
    /\ jobs[1].pc = "result_err" /\ jobs[1].err = "No suitable variants"
    /\ jobs[1].tasks = <<>> /\ jobs[1].thumb = "none"

\* the variant playlists the successful encodes of job j have produced
ProducedPlaylists(j) ==
    {VariantPlaylist(VariantLabel(j, k)) :
        k \in {t \in Tasks(j) : jobs[j].tasks[t].pc \in {"exited_ok", "done_ok"}}}

\* C27: once encode_to_hls has written the master playlist, every selected
\* variant's encode has completed successfully, the playlist holds exactly
\* one EXT-X-STREAM-INF entry per selected variant, and each entry's URI
\* {label}/index.m3u8 names a playlist a successful variant encode produced.
C27_MasterMatchesVariants ==
    \A j \in JobIds :
        (jobs[j] # IdleJob /\ jobs[j].master) =>
            LET selected == get_variants_for_height(jobs[j].height)
                entries == jobs[j].playlist
            IN
            /\ \A k \in Tasks(j) : jobs[j].tasks[k].pc = "done_ok"
            /\ Len(jobs[j].tasks) = Len(selected)
            /\ Len(entries) = Len(selected)
            /\ \A k \in DOMAIN selected :
                   Cardinality({e \in DOMAIN entries :
                       entries[e].uri = VariantPlaylist(selected[k].label)}) = 1
            /\ \A e \in DOMAIN entries : entries[e].uri \in ProducedPlaylists(j)

\* a 720-line source: both encodes succeeded and the master playlist lists
\* 480p/index.m3u8 and 720p/index.m3u8
C27_Witness ==
    /\ jobs[1] # IdleJob /\ jobs[1].master /\ jobs[1].height = 720
    /\ [e \in DOMAIN jobs[1].playlist |-> jobs[1].playlist[e].uri] =
           <<VariantPlaylist("480p"), VariantPlaylist("720p")>>

\* upload_hls_to_r2 has returned
UploaderReturned == call.fn = "upload_hls_to_r2" /\ call.pc = "returned"

\* the keys whose transfer ended in an error
FailedKeys ==
    {call.upload_results[i].err[2] :
        i \in {n \in DOMAIN call.upload_results : ~call.upload_results[n].ok}}

\* C28: upload_hls_to_r2 returns the master playlist key {prefix}index.m3u8
\* only if every collected file's PUT succeeded and index.m3u8 lies directly
\* under the output root; if a PUT fails it returns the error of a failed
\* transfer while the objects already uploaded stay in the store; if every
\* PUT succeeds and no root index.m3u8 was collected it returns the
\* no-master-playlist error.
C28_UploaderResult ==
    UploaderReturned =>
        LET listed == call.result # [ok |-> FALSE, err |-> <<"read dir">>]
            keys == {ObjectKey(p) : p \in call.tree}
        IN
        /\ call.result.ok =>
               /\ call.result.key = ObjectKey(<<"index.m3u8">>)
               /\ <<"index.m3u8">> \in call.tree
               /\ call.store = keys
        /\ FailedKeys # {} =>
               /\ ~call.result.ok
               /\ call.result.err = FirstErr(call.upload_results).err
               /\ call.result.err[2] \in FailedKeys
               /\ call.store = keys \ FailedKeys
        /\ (listed /\ FailedKeys = {} /\ <<"index.m3u8">> \notin call.tree) =>
               call.result = [ok |-> FALSE,
                              err |-> <<"no master playlist (index.m3u8) generated">>]

\* a failed PUT after a successful one: the error is returned and the first
\* object stays in the store
C28_Witness ==
    /\ UploaderReturned
    /\ call.tree = {<<"index.m3u8">>, <<"480p", "index.m3u8">>}
    /\ call.store = {ObjectKey(<<"index.m3u8">>)}
    /\ call.result = [ok |-> FALSE,
                      err |-> <<"upload", ObjectKey(<<"480p", "index.m3u8">>)>>]

\* C29: an authorized progress stream that has read no entry of U ends with
\* a single error event, and only once 60 seconds have passed; otherwise it
\* polls 500 ms apart, and the first entry it reads as completed or failed is
\* its last frame: it waits 3 seconds and closes with no further frame.
C29_StreamTermination ==
    [][ (sse # NoStream /\ sse.authorized) =>
          /\ (sse.pc = "poll" /\ sse' # sse
                /\ sse.data = 0 /\ sse.uid \notin DOMAIN progress) =>
                 IF sse.elapsed > StreamTimeout
                 THEN /\ sse'.pc = "closed"
                      /\ sse'.errors = 1 /\ sse'.data = 0
                      /\ sse'.last = ErrorEvent("Upload ID not found (timeout)")
                 ELSE sse'.pc = "sleep" /\ sse'.errors = 0 /\ sse'.data = 0
          /\ (sse.pc = "sleep" /\ sse'.pc = "poll") =>
                 sse'.elapsed >= sse.elapsed + PollMillis
          /\ (sse.pc = "sleep" /\ sse.data = 0) => sse.elapsed <= StreamTimeout
          /\ (sse.pc = "poll" /\ sse'.pc # "poll"
                /\ sse.uid \in DOMAIN progress /\ IsTerminal(progress[sse.uid])) =>
                 /\ sse.terminals = 0
                 /\ sse'.last = ProgressFrame(progress[sse.uid])
                 /\ sse'.pc = "closing"
          /\ sse.pc = "closing" =>
                 \/ sse' = sse
                 \/ /\ sse'.pc = "closed"
                    /\ sse'.elapsed >= sse.elapsed + TerminalWait
                    /\ sse'.last = sse.last /\ sse'.data = sse.data
                    /\ sse'.errors = sse.errors
          /\ sse.pc = "closed" => sse' = sse
    ]_vars

\* the stream of an upload that never appeared has closed with its single
\* error event at the first poll later than 60 seconds after its start
C29_Witness ==
    /\ sse # NoStream /\ sse.authorized /\ sse.pc = "closed"
    /\ sse.data = 0 /\ sse.errors = 1
    /\ sse.elapsed = StreamTimeout + MaxLate

\* the stream has closed 3 seconds after the completed frame it read on its
\* third poll
C29_TerminalWitness ==
    /\ sse # NoStream /\ sse.authorized /\ sse.pc = "closed"
    /\ sse.data = 3 /\ sse.terminals = 1 /\ sse.errors = 0
    /\ sse.last.event = "message" /\ sse.last.data.status = "completed"
    /\ sse.elapsed = 2 * PollMillis + TerminalWait

\* C30: every chapter row saved for a video has end_time > start_time >= 0,
\* and the ordinals saved are exactly 0..n-1, whatever chapters the probe
\* returns.
C30_ChaptersWellFormed ==
    call.fn = "save_chapters" =>
        /\ \A row \in call.rows : row.end_time > row.start_time /\ row.start_time >= 0
        /\ (call.idx = Len(call.chapter_streams)) =>
               {row.ordinal : row \in call.rows} = 0..(Cardinality(call.rows) - 1)

\* the variants of job j whose encode has completed
CompletedVariants(j) ==
    {k \in Tasks(j) : jobs[j].tasks[k].pc \in {"exited_ok", "done_ok"}}

\* C31: every "FFmpeg processing" entry a variant task writes, before its
\* encode starts and after it completes, has total_chunks equal to the number
\* of selected variants and current_chunk equal to the number of variants of
\* the job whose encode has completed at the time of the write.
C31_ProgressCountsCompleted ==
    [][\A j \in JobIds : \A k \in Tasks(j) :
          (jobs[j].tasks[k].pc \in {"read", "exited_ok"}
             /\ jobs'[j].tasks[k].pc \in {"running", "done_ok"}) =>
              /\ progress'[jobs[j].uid].stage = "FFmpeg processing"
              /\ progress'[jobs[j].uid].total_chunks =
                     Len(get_variants_for_height(jobs[j].height))
              /\ progress'[jobs[j].uid].current_chunk =
                     Cardinality(CompletedVariants(j))]_vars

\* C32: right after every presence scan the map holds no viewer entry whose
\* last heartbeat is 30 seconds old or older at the scan's reading of the
\* clock and no video whose inner map is empty; a heartbeat only adds or
\* refreshes an entry and removes none.
C32_PresenceMapAfterScan ==
    [][ /\ (scan.pc = "timed" /\ scan'.pc = "sleeping") =>
               \A v \in DOMAIN active_viewers' :
                   /\ DOMAIN active_viewers'[v] # {}
                   /\ \A k \in DOMAIN active_viewers'[v] :
                          DurationSince(scan.now, active_viewers'[v][k]) < PresenceWindow
        /\ (scan' = scan /\ active_viewers' # active_viewers) =>
               /\ DOMAIN active_viewers \subseteq DOMAIN active_viewers'
               /\ \A v \in DOMAIN active_viewers :
                      /\ DOMAIN active_viewers[v] \subseteq DOMAIN active_viewers'[v]
                      /\ \A k \in DOMAIN active_viewers[v] :
                             active_viewers'[v][k] >= active_viewers[v][k]
      ]_vars

\* two viewers of V were counted; the next scan removed the one whose
\* heartbeat was 30 seconds old and kept the other
C32_Witness ==
    /\ scan.pc = "sleeping"
    /\ counts = <<("V" :> 2), ("V" :> 1)>>
    /\ DOMAIN active_viewers = {"V"}
    /\ Cardinality(DOMAIN active_viewers["V"]) = 1

\* the finalize requests that hold the record of u, and the jobs spawned for u
FinalizeHolders(u) == {s \in Slots : req[s].op = "finalize" /\ req[s].uid = u}
JobsOf(u) == {j \in JobIds : jobs[j] # IdleJob /\ jobs[j].uid = u}

\* C33: of the finalize requests made for one reassembly record, at most one
\* obtains the record, assembles the file and spawns a job: while the record
\* is in the map no request holds it, the request that obtains it removes it,
\* and every request that finds no record is answered 404 and spawns nothing.
C33_FinalizeAtMostOnce ==
    [][\A u \in UploadIds :
          /\ u \in DOMAIN chunked_uploads =>
                 FinalizeHolders(u) = {} /\ JobsOf(u) = {}
          /\ u \notin DOMAIN chunked_uploads => u \notin DOMAIN chunked_uploads'
          /\ Cardinality(FinalizeHolders(u)) + Cardinality(JobsOf(u)) <= 1
          /\ \A s \in Slots :
                 (s \notin FinalizeHolders(u) /\ req'[s].op = "finalize" /\ req'[s].uid = u)
                     => u \in DOMAIN chunked_uploads /\ u \notin DOMAIN chunked_uploads'
          /\ (started' = started + 1 /\ req' = req
                /\ resp'.op = "finalize" /\ resp'.uid = u
                /\ u \notin DOMAIN chunked_uploads) =>
                 resp'.code = "404" /\ jobs' = jobs
      ]_vars

\* while one finalize request for U1 holds the record and assembles, a second
\* one has been answered 404
C33_Witness ==
    /\ FinalizeHolders("U1") # {}
    /\ resp = [op |-> "finalize", uid |-> "U1", code |-> "404"]

\* C34: a finalize rejected because not all chunks have been received leaves
\* the reassembly record with its received vector, the scratch directory and
\* the progress entry as they were before the call.
C34_RejectedFinalizeChangesNothing ==
    [][\A u \in UploadIds :
          (started' = started + 1 /\ req' = req
             /\ resp' = [op |-> "finalize", uid |-> u, code |-> "400"]
             /\ u \in DOMAIN chunked_uploads) =>
              /\ chunked_uploads' = chunked_uploads
              /\ dirs' = dirs
              /\ progress' = progress]_vars

\* the registry holds a completed or failed entry for u
TerminalEntry(u) == Has(progress, u) /\ IsTerminal(progress[u])

\* C35: once the background job for an uploadId has been spawned, and with
\* every subprocess, store call and database call returning, the registry
\* eventually holds an entry for it with status completed or failed.
C35_JobReachesTerminalEntry ==
    \A j \in JobIds :
        (jobs[j] # IdleJob /\ jobs[j].pc = "start") ~> TerminalEntry("U1")

\* the job has encoded, uploaded and saved, and has stored "Completed"
C35_Witness ==
    /\ jobs[1] # IdleJob /\ jobs[1].pc = "sleeping"
    /\ TerminalEntry("U1") /\ progress["U1"].status = "completed"

\* C36: a "completed" entry is written only by a job for that uploadId whose
\* PUTs have all succeeded and whose save_video has returned Ok, and it
\* carries the result with player_url /player/{outputId} and the entry's key
\* as upload_id; an entry with any other status carries no result.
C36_CompletedMeansPersisted ==
    [][\A u \in UploadIds :
          /\ (Has(progress', u) /\ progress'[u].status # "completed") =>
                 progress'[u].result = NoResult
          /\ (Has(progress', u) /\ progress'[u].status = "completed"
                /\ (~Has(progress, u) \/ progress[u] # progress'[u])) =>
                 /\ progress'[u].result = [player_url |-> "/player/out", upload_id |-> u]
                 /\ \E j \in JobIds :
                        /\ jobs[j] # IdleJob /\ jobs[j].uid = u
                        /\ jobs[j].pc = "result_ok" /\ jobs'[j].pc = "sleeping"
                        /\ ~jobs[j].put_failed
                        /\ jobs[j].puts = TotalFiles(j)
                        /\ jobs[j].uploaded = TotalFiles(j)
      ]_vars

\* the job of U1 has stored "Completed" after all its PUTs and save_video
C36_Witness ==
    /\ Has(progress, "U1") /\ progress["U1"].status = "completed"
    /\ progress["U1"].result = [player_url |-> "/player/out", upload_id |-> "U1"]
    /\ \E j \in JobIds : jobs[j] # IdleJob /\ jobs[j].pc = "sleeping"
                         /\ jobs[j].uploaded = TotalFiles(j)

\* encode_to_hls has returned to the job
EncodeReturned(j) ==
    jobs[j] # IdleJob /\ jobs[j].tasks # <<>> /\ jobs[j].pc \notin {"encode", "joining"}

\* C37: after encode_to_hls has returned an error for a job, no variant
\* task of that job acquires a permit, starts an FFmpeg subprocess or writes
\* a progress entry.
C37_FailedJobStopsTranscoding ==
    [][\A j \in JobIds :
          (EncodeReturned(j) /\ FailedTasks(jobs[j].tasks) # {}
             /\ jobs[j].err = JoinError(j)) =>
              \A k \in Tasks(j) :
                  /\ ~(jobs[j].tasks[k].pc = "waiting" /\ jobs'[j].tasks[k].pc = "acquired")
                  /\ ~(jobs[j].tasks[k].pc = "read" /\ jobs'[j].tasks[k].pc = "running")
                  /\ ~(jobs[j].tasks[k].pc = "exited_ok" /\ jobs'[j].tasks[k].pc = "done_ok")
      ]_vars

\* task t holds lock l / waits for lock l
Holds(t, l) == sync[l].w = t \/ t \in sync[l].r
Awaits(t, l) == \E i \in DOMAIN sync[l].q : sync[l].q[i].t = t

\* C38: no task waits for the reassembly-records lock while it holds the
\* progress-registry lock, so the two locks are nested only in the order
\* records, then progress, and every lock request is eventually granted.
C38_NoLockOrderDeadlock ==
    /\ [](\A t \in LockTasks : ~(Holds(t, "prog") /\ Awaits(t, "rec")))
    /\ \A t \in LockTasks : sync.th[t].waiting ~> ~sync.th[t].waiting

\* an upload_chunk request holds the records lock and waits for the progress
\* lock, which a cancel_queue request holds
C38_Witness ==
    \E t, c \in LockTasks :
        /\ sync.th[t].path \in upload_chunk_locks /\ Holds(t, "rec") /\ Awaits(t, "prog")
        /\ sync.th[c].path \in cancel_queue_locks /\ Len(sync.th[c].path) = 4
        /\ Holds(c, "prog")

\* the entry of u is still the one a direct upload writes while it reads
\* the multipart fields, with status initializing or processing
DirectEntryLive(u) ==
    /\ Has(progress, u)
    /\ progress[u].stage \in {"Initializing upload", "Uploading to server"}
    /\ progress[u].status \in {"initializing", "processing"}

\* C39: a rejected direct upload leaves no live entry: an entry that
\* POST /api/upload created is in its initializing or processing stage only
\* while a request for that uploadId is still reading its fields; once the
\* request has returned an error the entry is marked failed or removed.
C39_RejectedUploadLeavesNoLiveEntry ==
    \A u \in UploadIds :
        DirectEntryLive(u) =>
            \E s \in Slots : req[s] # Idle /\ req[s].op = "upload_video" /\ req[s].uid = u

\* C40: every subtitle row saved for a video, with its trackIndex the 0-based
\* position in the probed list, has a storageKey
\* {videoId}/subtitles/track_i.{ext} that is the key of an object the uploader
\* PUT for that job, also when the extraction of track i failed.
C40_SubtitleRowsReferenceObjects ==
    call.fn = "subtitles" =>
        \A row \in call.rows :
            /\ row.track_index \in 0..(Len(call.subtitle_streams) - 1)
            /\ row.storage_key \in call.put

====
